---------------------------- MODULE Spec2Model ----------------------------
(***************************************************************************)
(* GaGoForge validation engine: ParserService, the tiered validators,      *)
(* the scorers and the SubmissionService orchestrator, as state machines.  *)
(*                                                                         *)
(* Numbers.  Scores are Python floats in the source.  The model keeps them *)
(* exact: a score is a rational [n |-> numerator, d |-> denominator > 0],  *)
(* kept in lowest terms.                                                   *)
(***************************************************************************)
EXTENDS Integers, Sequences, FiniteSets, TLC

(* ------------------------------ bounds -------------------------------- *)

\* Submissions handled one after another in a behaviour of Spec.
MaxSubmissions == 2

(* ----------------------------- rationals ------------------------------ *)

Abs(x) == IF x < 0 THEN -x ELSE x

RECURSIVE Gcd(_, _)
Gcd(a, b) == IF b = 0 THEN a ELSE Gcd(b, a % b)

Rat(n, d) ==
    LET g == Gcd(Abs(n), Abs(d))
        s == IF d < 0 THEN -1 ELSE 1
    IN  IF n = 0 THEN [n |-> 0, d |-> 1]
        ELSE [n |-> (s * n) \div g, d |-> (s * d) \div g]

RInt(k) == [n |-> k, d |-> 1]
RAdd(a, b) == Rat(a.n * b.d + b.n * a.d, a.d * b.d)
RMul(a, b) == Rat(a.n * b.n, a.d * b.d)
RDiv(a, b) == Rat(a.n * b.d, a.d * b.n)
RLe(a, b) == a.n * b.d <= b.n * a.d
RLt(a, b) == a.n * b.d < b.n * a.d
RGe(a, b) == RLe(b, a)
RMin(a, b) == IF RLe(a, b) THEN a ELSE b
RMax(a, b) == IF RLe(a, b) THEN b ELSE a

R0 == RInt(0)
R100 == RInt(100)

(* ------------------------------ strings ------------------------------- *)

\* Python's `needle in hay` for str.
Contains(hay, needle) ==
    \E i \in 0..(Len(hay) - Len(needle)) :
        SubSeq(hay, i + 1, i + Len(needle)) = needle

StartsWith(s, p) == Len(p) <= Len(s) /\ SubSeq(s, 1, Len(p)) = p
EndsWith(s, p) == Len(p) <= Len(s) /\ SubSeq(s, Len(s) - Len(p) + 1, Len(s)) = p


(* ----------------------------- dict helpers --------------------------- *)

\* Python's None and a present value, for fields that are `x or None`.
None == <<>>
Some(x) == <<x>>

\* dict.get(key, default)
Get(rec, key, default) == IF key \in DOMAIN rec THEN rec[key] ELSE default

\* {**rec, **extra}
Merge(rec, extra) ==
    [k \in DOMAIN rec \cup DOMAIN extra |->
        IF k \in DOMAIN extra THEN extra[k] ELSE rec[k]]

(* --------------------------- submitted code --------------------------- *)
(* A submission's source text together with what the external parsers     *)
(* (Python's ast, esprima under node) and the regex extractors and the     *)
(* semantic analyzers' regexes find in that text.  A fact list of which    *)
(* the validators read only the length is kept as its length; `accepts`    *)
(* is the set of pattern types whose dedicated intermediate validator      *)
(* (tiered_validator.py 3366-4498, not modelled line by line) finds what   *)
(* it looks for in the profile.                                            *)

NoFacts == [model_fields |-> 0, queryset_operations |-> <<>>,
            serializer_classes |-> 0, hook_calls |-> <<>>,
            state_declarations |-> 0, event_handlers |-> 0, jsx_elements |-> 0,
            accepts |-> {}]

EmptyJs == [imports |-> <<>>, classes |-> <<>>, functions |-> <<>>, exports |-> <<>>]

\* The repository's test fixture (test_tiered_validation.py), shortened.
BookModel ==
    [ text |-> "from django.db import models class Book(models.Model): title = models.CharField(max_length=200) def __str__(self): return self.title",
      py |-> [ status |-> "ok", line |-> 0, offset |-> 0,
               imports |-> << [type |-> "from_import", module |-> "django.db", name |-> "models"] >>,
               classes |-> << [name |-> "Book", bases |-> << "models.Model" >>,
                               methods |-> << [name |-> "__str__", args |-> << "self" >>] >>,
                               fields |-> << "title" >>] >>,
               functions |-> <<>> ],
      js |-> [ esprima |-> "syntax_error", line |-> 1, native |-> EmptyJs,
               regex_raises |-> FALSE, regex |-> EmptyJs ],
      django |-> [NoFacts EXCEPT !.model_fields = 1],
      react |-> NoFacts ]

\* The same class cut short: the colon after the class header is missing.
BrokenPython ==
    [ text |-> "from django.db import models class Book(models.Model) title = models.CharField(",
      py |-> [ status |-> "syntax_error", line |-> 3, offset |-> 25,
               imports |-> <<>>, classes |-> <<>>, functions |-> <<>> ],
      js |-> [ esprima |-> "syntax_error", line |-> 1, native |-> EmptyJs,
               regex_raises |-> FALSE, regex |-> EmptyJs ],
      django |-> [NoFacts EXCEPT !.model_fields = 1],
      react |-> NoFacts ]

CounterFn == [name |-> "Counter", type |-> "function", params |-> << "props" >>]

Counter ==
    [ text |-> "import { useState } from 'react'; function Counter(props) { const [n, setN] = useState(0); return n ? n : null; } export default Counter;",
      py |-> [ status |-> "syntax_error", line |-> 1, offset |-> 8,
               imports |-> <<>>, classes |-> <<>>, functions |-> <<>> ],
      js |-> [ esprima |-> "ok", line |-> 0,
               native |-> [ imports |-> << [type |-> "import", module |-> "react",
                                            specifiers |-> << [type |-> "ImportSpecifier", local |-> "useState", imported |-> "useState"] >>] >>,
                            classes |-> <<>>,
                            functions |-> << CounterFn >>,
                            exports |-> << [type |-> "ExportDefaultDeclaration", declaration |-> "Counter"] >> ],
               regex_raises |-> FALSE,
               regex |-> [ imports |-> << [type |-> "import", module |-> "react",
                                           specifiers |-> << [type |-> "ImportSpecifier", local |-> "useState", imported |-> "useState"] >>] >>,
                           classes |-> <<>>,
                           functions |-> << CounterFn >>,
                           exports |-> << [type |-> "ExportDefaultDeclaration", declaration |-> "Counter"] >> ] ],
      django |-> NoFacts,
      react |-> [NoFacts EXCEPT !.hook_calls = << "useState" >>, !.state_declarations = 1] ]

\* Counter with an unbalanced brace: esprima rejects it, the regexes still
\* find the import and the function.
BrokenCounter ==
    [ text |-> "import { useState } from 'react'; function Counter(props) { const [n, setN] = useState(0); return n ? n : null; }}",
      py |-> [ status |-> "syntax_error", line |-> 1, offset |-> 8,
               imports |-> <<>>, classes |-> <<>>, functions |-> <<>> ],
      js |-> [ esprima |-> "syntax_error", line |-> 1, native |-> EmptyJs,
               regex_raises |-> FALSE,
               regex |-> [ imports |-> << [type |-> "import", module |-> "react",
                                           specifiers |-> << [type |-> "ImportSpecifier", local |-> "useState", imported |-> "useState"] >>] >>,
                           classes |-> <<>>,
                           functions |-> << CounterFn >>,
                           exports |-> <<>> ] ],
      django |-> NoFacts,
      react |-> [NoFacts EXCEPT !.hook_calls = << "useState" >>, !.state_declarations = 1] ]

\* `imported, local = specifier.split(' as ')` raises ValueError on this one.
DoubleAlias ==
    [ text |-> "import { a as b as c } from 'x';",
      py |-> [ status |-> "syntax_error", line |-> 1, offset |-> 8,
               imports |-> <<>>, classes |-> <<>>, functions |-> <<>> ],
      js |-> [ esprima |-> "syntax_error", line |-> 1, native |-> EmptyJs,
               regex_raises |-> TRUE, regex |-> EmptyJs ],
      django |-> NoFacts,
      react |-> NoFacts ]

CodeSamples == { BookModel, BrokenPython, Counter, BrokenCounter, DoubleAlias }

\* The Book model without its __str__ method.
BookNoStr ==
    [ text |-> "from django.db import models class Book(models.Model): title = models.CharField(max_length=200)",
      py |-> [ status |-> "ok", line |-> 0, offset |-> 0,
               imports |-> << [type |-> "from_import", module |-> "django.db", name |-> "models"] >>,
               classes |-> << [name |-> "Book", bases |-> << "models.Model" >>,
                               methods |-> <<>>, fields |-> << "title" >>] >>,
               functions |-> <<>> ],
      js |-> [ esprima |-> "syntax_error", line |-> 1, native |-> EmptyJs,
               regex_raises |-> FALSE, regex |-> EmptyJs ],
      django |-> [NoFacts EXCEPT !.model_fields = 1],
      react |-> NoFacts ]

\* A module with a relative import, a plain import, a model and a view
\* function.  ast gives `from .serializers import ...` the module name
\* 'serializers'.
Library ==
    [ text |-> "from .serializers import BookSerializer import models class Book(models.Model): title = models.CharField(max_length=200) def __str__(self): return self.title def get_books(request): return Book.objects.filter(title='x')",
      py |-> [ status |-> "ok", line |-> 0, offset |-> 0,
               imports |-> << [type |-> "from_import", module |-> "serializers", name |-> "BookSerializer"],
                              [type |-> "import", module |-> "models"] >>,
               classes |-> << [name |-> "Book", bases |-> << "models.Model" >>,
                               methods |-> << [name |-> "__str__", args |-> << "self" >>] >>,
                               fields |-> << "title" >>] >>,
               functions |-> << [name |-> "get_books", args |-> << "request" >>] >> ],
      js |-> [ esprima |-> "syntax_error", line |-> 1, native |-> EmptyJs,
               regex_raises |-> FALSE, regex |-> EmptyJs ],
      django |-> [NoFacts EXCEPT !.model_fields = 1, !.queryset_operations = << "filter" >>],
      react |-> NoFacts ]

RequireReact == [type |-> "require", module |-> "react",
                 specifiers |-> << [type |-> "RequireSpecifier", local |-> "React", imported |-> "default"] >>]

\* A CommonJS component that calls no hook.
CommonJs ==
    [ text |-> "const React = require('react'); function Counter(props) { return null; } module.exports = Counter;",
      py |-> [ status |-> "syntax_error", line |-> 1, offset |-> 7,
               imports |-> <<>>, classes |-> <<>>, functions |-> <<>> ],
      js |-> [ esprima |-> "ok", line |-> 0,
               native |-> [ imports |-> << RequireReact >>,
                            classes |-> <<>>,
                            functions |-> << CounterFn >>,
                            exports |-> << [type |-> "ModuleExports", declaration |-> "Counter"] >> ],
               regex_raises |-> FALSE,
               regex |-> [ imports |-> << RequireReact >>,
                           classes |-> <<>>,
                           functions |-> << CounterFn >>,
                           exports |-> << [type |-> "ModuleExports", declaration |-> "Counter"] >> ] ],
      django |-> NoFacts,
      react |-> NoFacts ]

\* A class component.  Both JavaScript stages report the base class under
\* `superClass`; the regex stage cuts the class body at the first closing
\* brace and finds no method in it.
Clock ==
    [ text |-> "class Clock extends Component { render() { return null; } }",
      py |-> [ status |-> "syntax_error", line |-> 1, offset |-> 13,
               imports |-> <<>>, classes |-> <<>>, functions |-> <<>> ],
      js |-> [ esprima |-> "ok", line |-> 0,
               native |-> [ imports |-> <<>>,
                            classes |-> << [name |-> "Clock", superClass |-> "Component",
                                            methods |-> << [name |-> "render", kind |-> "method"] >>] >>,
                            functions |-> <<>>,
                            exports |-> <<>> ],
               regex_raises |-> FALSE,
               regex |-> [ imports |-> <<>>,
                           classes |-> << [name |-> "Clock", superClass |-> "Component",
                                           methods |-> <<>>] >>,
                           functions |-> <<>>,
                           exports |-> <<>> ] ],
      django |-> NoFacts,
      react |-> NoFacts ]

\* A view module that imports from its own package: ast gives
\* `from . import views` no module name, stored as ''.
PackageView ==
    [ text |-> "from . import views def index(request): return views.home(request)",
      py |-> [ status |-> "ok", line |-> 0, offset |-> 0,
               imports |-> << [type |-> "from_import", module |-> "", name |-> "views"] >>,
               classes |-> <<>>,
               functions |-> << [name |-> "index", args |-> << "request" >>] >> ],
      js |-> [ esprima |-> "syntax_error", line |-> 1, native |-> EmptyJs,
               regex_raises |-> FALSE, regex |-> EmptyJs ],
      django |-> NoFacts,
      react |-> NoFacts ]

\* Sources the tiers are applied to on their own.
UnitSamples == { BookModel, BookNoStr, Library, Counter, BrokenCounter, CommonJs, Clock,
                 PackageView }

(* ---------------------------- ParserService --------------------------- *)

FailedParse(error) ==
    [success |-> FALSE, error |-> error,
     imports |-> <<>>, classes |-> <<>>, functions |-> <<>>]

parse_python(code) ==
    CASE code.py.status = "ok" ->
            [success |-> TRUE, error |-> None,
             imports |-> code.py.imports, classes |-> code.py.classes,
             functions |-> code.py.functions, language |-> "python"]
      [] code.py.status = "syntax_error" ->
            [success |-> FALSE, error |-> Some("Line: msg"),
             line |-> Some(code.py.line), offset |-> Some(code.py.offset),
             imports |-> <<>>, classes |-> <<>>, functions |-> <<>>,
             language |-> "python"]
      [] OTHER ->
            Merge(FailedParse(Some("error")), [language |-> "python"])

parse_javascript_with_regex(code) ==
    IF code.js.regex_raises
    THEN FailedParse(Some("Regex parsing failed"))
    ELSE [success |-> TRUE,
          imports |-> code.js.regex.imports, classes |-> code.js.regex.classes,
          functions |-> code.js.regex.functions, exports |-> code.js.regex.exports,
          ast_type |-> "regex"]

\* What the node subprocess can do with the parser script.
NodeOutcomes == {"exit0", "missing", "timeout", "nonzero", "badjson", "oserror"}

\* The script's own try / catch / finally (it prints one JSON object).
parser_script(code) ==
    IF code.js.esprima = "ok"
    THEN [success |-> TRUE,
          imports |-> code.js.native.imports, classes |-> code.js.native.classes,
          functions |-> code.js.native.functions, exports |-> code.js.native.exports,
          ast_type |-> "esprima"]
    ELSE [success |-> FALSE, error |-> Some("esprima error"),
          line |-> Some(code.js.line)]

\* Whether `finally { fs.unlinkSync(temp_path) }` of the script ran.  It does
\* when node ran the script to its end; it cannot when node never started;
\* a killed or failing node process may stop before or after it.
script_unlinks(outcome) ==
    CASE outcome \in {"exit0", "badjson"}   -> {TRUE}
      [] outcome \in {"timeout", "nonzero"} -> {TRUE, FALSE}
      [] OTHER                              -> {FALSE}

\* The value _parse_javascript_with_node returns after subprocess.run.
node_result_of(code, outcome) ==
    CASE outcome = "exit0"   -> parser_script(code)
      [] outcome = "nonzero" -> FailedParse(Some("Node.js parser error"))
      [] outcome = "missing" -> FailedParse(Some("Node.js not available for JavaScript parsing"))
      [] outcome = "timeout" -> FailedParse(Some("JavaScript parsing timeout - code too complex"))
      [] outcome = "badjson" -> FailedParse(Some("Failed to parse JavaScript parser output"))
      [] OTHER               -> FailedParse(Some("JavaScript parsing failed"))

\* the native result returned as it is, which C10 rules out
parse_javascript_native_only(code, node_result) ==
    << Merge(node_result, [language |-> "javascript", parser_used |-> "esprima"]), <<>> >>

\* parse_javascript_enhanced after the native stage returned node_result:
\* <<result, stages run after the native one>>.
parse_javascript_enhanced(code, node_result) ==
    IF Get(node_result, "success", FALSE)
    THEN << Merge(node_result, [language |-> "javascript", parser_used |-> "esprima"]),
            <<>> >>
    ELSE << Merge(parse_javascript_with_regex(code),
                  [language |-> "javascript", parser_used |-> "regex"]),
            << "regex" >> >>


(* ------------------------ more string functions ----------------------- *)

Upper == << "A","B","C","D","E","F","G","H","I","J","K","L","M",
            "N","O","P","Q","R","S","T","U","V","W","X","Y","Z" >>
LowerCase == << "a","b","c","d","e","f","g","h","i","j","k","l","m",
                "n","o","p","q","r","s","t","u","v","w","x","y","z" >>

LowerChar(c) ==
    IF \E i \in 1..26 : Upper[i] = c
    THEN LowerCase[CHOOSE i \in 1..26 : Upper[i] = c]
    ELSE c

\* str.lower(), by halves so that the evaluation stays shallow
RECURSIVE LowerRange(_, _, _)
LowerRange(s, lo, hi) ==
    IF lo > hi THEN ""
    ELSE IF lo = hi THEN LowerChar(SubSeq(s, lo, lo))
    ELSE LET mid == (lo + hi) \div 2
         IN  LowerRange(s, lo, mid) \o LowerRange(s, mid + 1, hi)
Lower(s) == LowerRange(s, 1, Len(s))

\* The k-th smallest member of a finite set of integers.
Nth(S, k) == CHOOSE x \in S : Cardinality({y \in S : y < x}) = k - 1

\* str.split(sep) for a one-character sep: empty parts are kept.
Split(s, sep) ==
    LET cuts == {0, Len(s) + 1} \cup {i \in 1..Len(s) : SubSeq(s, i, i) = sep}
    IN  [k \in 1..(Cardinality(cuts) - 1) |->
            SubSeq(s, Nth(cuts, k) + 1, Nth(cuts, k + 1) - 1)]

\* str.split(): on runs of blanks, no empty parts.
Words(s) == SelectSeq(Split(s, " "), LAMBDA w : w # "")

\* str.lstrip(ch)
RECURSIVE LStrip(_, _)
LStrip(s, ch) ==
    IF Len(s) > 0 /\ SubSeq(s, 1, 1) = ch THEN LStrip(SubSeq(s, 2, Len(s)), ch) ELSE s

\* str.replace(a, b) for one-character a
RECURSIVE ReplaceFrom(_, _, _, _)
ReplaceFrom(s, a, b, i) ==
    IF i > Len(s) THEN ""
    ELSE (IF SubSeq(s, i, i) = a THEN b ELSE SubSeq(s, i, i)) \o ReplaceFrom(s, a, b, i + 1)
Replace(s, a, b) == ReplaceFrom(s, a, b, 1)

\* sep.join(seq)
RECURSIVE Join(_, _)
Join(seq, sep) ==
    IF seq = <<>> THEN ""
    ELSE IF Len(seq) = 1 THEN seq[1]
    ELSE seq[1] \o sep \o Join(Tail(seq), sep)

\* repr of a list of str
ListRepr(seq) == "[" \o Join([i \in 1..Len(seq) |-> "'" \o seq[i] \o "'"], ", ") \o "]"

\* Concatenation of a sequence of sequences.
RECURSIVE Flatten(_)
Flatten(seqs) == IF seqs = <<>> THEN <<>> ELSE Head(seqs) \o Flatten(Tail(seqs))

\* The glyphs the validators put in front of their detail lines.
\* U+2713, U+2717, U+26A0 (alone, and followed by the variation selector
\* U+FE0F, which is a second code point), U+2139 U+FE0F.
CheckMark == "^v"
CrossMark == "^x"
WarnSign == "^w"
WarnEmoji == "^w~"
InfoEmoji == "^i~"

(* ------------------------- BaseValidator: imports --------------------- *)

import_candidates(imp) ==
    LET t == Get(imp, "type", "") IN
    CASE t = "import"      -> << Get(imp, "module", "") >>
      [] t = "from_import" -> << Get(imp, "module", "") \o "." \o Get(imp, "name", ""),
                                 Get(imp, "module", ""), Get(imp, "name", "") >>
      [] t = "require"     -> << Get(imp, "module", "") >>
      [] OTHER ->
            << Get(imp, "module", "") >> \o
            Flatten([i \in 1..Len(Get(imp, "specifiers", <<>>)) |->
                LET sp == imp.specifiers[i] IN
                << Get(sp, "local", "") >> \o
                (IF Get(sp, "imported", "") # "" THEN << sp.imported >> ELSE <<>>)])

extract_all_imports(parsed_code) ==
    Flatten([i \in 1..Len(Get(parsed_code, "imports", <<>>)) |->
                import_candidates(parsed_code.imports[i])])

is_import_match_enhanced(required, found_imports) ==
    IF StartsWith(required, ".")
    THEN LET required_abs == LStrip(required, ".")
             parts == Split(required_abs, ".")
             variations == << required_abs, Replace(required_abs, ".", "_"), parts[Len(parts)] >>
         IN  \E f \in 1..Len(found_imports) : \E v \in 1..3 :
                \/ Contains(found_imports[f], variations[v])
                \/ EndsWith(found_imports[f], variations[v])
    ELSE LET required_parts == Split(required, ".")
         IN  \E f \in 1..Len(found_imports) :
                \/ Contains(found_imports[f], required)
                \/ Contains(required, found_imports[f])
                \/ \A p \in 1..Len(required_parts) :
                        Contains(found_imports[f], required_parts[p])

\* an import score that is all or nothing, which C18 rules out
validate_imports_common_all_or_nothing(parsed_code, required_imports) ==
    LET found_imports == extract_all_imports(parsed_code)
        missing == SelectSeq(required_imports,
                       LAMBDA r : ~ is_import_match_enhanced(r, found_imports))
    IN  [passed |-> Len(missing) = 0,
         score |-> IF missing = <<>> THEN R100 ELSE R0,
         details |-> IF missing # <<>>
                     THEN << "Missing imports: " \o ListRepr(missing) >>
                     ELSE << "All imports present" >>]

validate_imports_common(parsed_code, required_imports) ==
    IF required_imports = <<>>
    THEN [passed |-> TRUE, score |-> R100,
          details |-> << "No imports required for validation" >>]
    ELSE LET found_imports == extract_all_imports(parsed_code)
             missing == SelectSeq(required_imports,
                            LAMBDA r : ~ is_import_match_enhanced(r, found_imports))
             score == IF missing = <<>> THEN R100
                      ELSE RMax(R0, RMul(Rat(Len(required_imports) - Len(missing),
                                             Len(required_imports)), R100))
         IN  [passed |-> Len(missing) = 0, score |-> score,
              details |-> IF missing # <<>>
                          THEN << "Missing imports: " \o ListRepr(missing) >>
                          ELSE << "All imports present" >>]


(* --------------------- structure checks, both tiers ------------------- *)

\* A requirement written as a plain string (not a dict) is [str |-> text].
IsStr(x) == "str" \in DOMAIN x

IsUpperChar(c) == \E i \in 1..26 : Upper[i] = c

RECURSIVE SumFrom(_, _, _)
SumFrom(seq, f(_), k) == IF k > Len(seq) THEN 0 ELSE f(seq[k]) + SumFrom(seq, f, k + 1)
SumOver(seq, f(_)) == SumFrom(seq, f, 1)

\* next((x for x in seq if x['name'] == name), None) as a sequence of 0 or 1.
FindByName(seq, name) ==
    LET hits == SelectSeq(seq, LAMBDA x : x.name = name)
    IN  IF hits = <<>> THEN <<>> ELSE << hits[1] >>

Names(seq) == [i \in 1..Len(seq) |-> seq[i].name]
InSeq(x, seq) == \E i \in 1..Len(seq) : seq[i] = x

Check(ok, line) == [p |-> IF ok THEN 1 ELSE 0, t |-> 1, d |-> << line >>]
Note(line) == [p |-> 0, t |-> 0, d |-> << line >>]
NoCheck == [p |-> 0, t |-> 0, d |-> <<>>]
Both(a, b) == [p |-> a.p + b.p, t |-> a.t + b.t, d |-> a.d \o b.d]

RECURSIVE AllOf(_)
AllOf(checks) == IF checks = <<>> THEN NoCheck ELSE Both(Head(checks), AllOf(Tail(checks)))

\* str(parsed_code.get('imports', [])) contains `word`
ImportsReprContains(parsed_code, word) ==
    \E i \in 1..Len(Get(parsed_code, "imports", <<>>)) :
        LET imp == parsed_code.imports[i] IN
        \/ \E k \in DOMAIN imp \ {"specifiers"} : Contains(imp[k], word)
        \/ \E j \in 1..Len(Get(imp, "specifiers", <<>>)) :
              \E k \in DOMAIN imp.specifiers[j] : Contains(imp.specifiers[j][k], word)

(* BeginnerValidator._validate_structure_enhanced, one class_spec *)
beginner_class_check(parsed_code, class_spec, framework, semantics) ==
    LET class_name == IF IsStr(class_spec) THEN class_spec.str
                      ELSE Get(class_spec, "name", "None")
        found == IF ~ IsStr(class_spec) /\ "name" \notin DOMAIN class_spec THEN <<>>
                 ELSE FindByName(Get(parsed_code, "classes", <<>>), class_name)
    IN
    IF found = <<>>
    THEN Check(FALSE, CrossMark \o " Class '" \o class_name \o "' not found")
    ELSE
    LET found_class == found[1]
        exists == Check(TRUE, CheckMark \o " Class '" \o class_name \o "' found")
        parent ==
            IF "parent_class" \in DOMAIN class_spec
            THEN LET expected_parent == class_spec.parent_class
                     actual_parents == Get(found_class, "bases", <<>>)
                     ok == \/ InSeq(expected_parent, actual_parents)
                           \/ \E i \in 1..Len(actual_parents) :
                                 Contains(actual_parents[i], expected_parent)
                 IN  Check(ok, IF ok
                               THEN "  " \o CheckMark \o " Inherits from '" \o expected_parent \o "'"
                               ELSE "  " \o CrossMark \o " Does not inherit from '" \o expected_parent
                                    \o "' (found: " \o ListRepr(actual_parents) \o ")")
            ELSE NoCheck
        methods ==
            IF "methods" \in DOMAIN class_spec
            THEN LET class_methods == Names(Get(found_class, "methods", <<>>))
                 IN  AllOf([i \in 1..Len(class_spec.methods) |->
                        LET m == class_spec.methods[i]
                            ok == InSeq(m, class_methods)
                        IN  Check(ok, IF ok
                                      THEN "  " \o CheckMark \o " Method '" \o m \o "' exists"
                                      ELSE "  " \o CrossMark \o " Method '" \o m \o "' missing")])
            ELSE NoCheck
        django ==
            IF /\ framework = "django" /\ DOMAIN semantics # {}
               /\ \/ EndsWith(class_name, "Model")
                  \/ Contains(Get(class_spec, "parent_class", ""), "Model")
            THEN LET n == Get(semantics, "model_fields", 0)
                 IN  IF n > 0
                     THEN Note("  " \o CheckMark \o " Model has " \o ToString(n) \o " field(s)")
                     ELSE Note("  " \o WarnSign \o " Model has no fields defined")
            ELSE NoCheck
        react ==
            IF /\ framework = "react" /\ DOMAIN semantics # {}
               /\ Contains(Get(class_spec, "parent_class", ""), "Component")
               /\ InSeq("render", Names(Get(found_class, "methods", <<>>)))
            THEN Note("  " \o CheckMark \o " Component has render() method")
            ELSE NoCheck
    IN  IF IsStr(class_spec) THEN exists
        ELSE AllOf(<< exists, parent, methods, django, react >>)

(* BeginnerValidator._validate_structure_enhanced, one func_spec *)
beginner_function_check(parsed_code, func_spec, framework, semantics) ==
    LET func_name == IF IsStr(func_spec) THEN func_spec.str
                     ELSE Get(func_spec, "name", "None")
        found == IF ~ IsStr(func_spec) /\ "name" \notin DOMAIN func_spec THEN <<>>
                 ELSE FindByName(Get(parsed_code, "functions", <<>>), func_name)
    IN
    IF found = <<>>
    THEN Check(FALSE, CrossMark \o " Function '" \o func_name \o "' not found")
    ELSE
    LET found_func == found[1]
        exists == Check(TRUE, CheckMark \o " Function '" \o func_name \o "' found")
        params ==
            IF "params" \in DOMAIN func_spec
            THEN LET expected_params == func_spec.params
                     actual_params == Get(found_func, "params", <<>>)
                     ok == \A i \in 1..Len(expected_params) :
                              InSeq(expected_params[i], actual_params)
                 IN  Check(ok, IF ok
                               THEN "  " \o CheckMark \o " Has correct parameters: " \o ListRepr(expected_params)
                               ELSE "  " \o CrossMark \o " Parameter mismatch (expected: "
                                    \o ListRepr(expected_params) \o ", got: " \o ListRepr(actual_params) \o ")")
            ELSE NoCheck
        component ==
            IF Get(func_spec, "type", "") = "functional_component"
            THEN IF IsUpperChar(SubSeq(func_name, 1, 1))
                 THEN Both(Check(TRUE, "  " \o CheckMark \o " Follows React component naming convention"),
                           IF /\ framework = "react" /\ DOMAIN semantics # {}
                              /\ Get(semantics, "hook_calls", <<>>) # <<>>
                           THEN Note("  " \o CheckMark \o " Uses hooks: "
                                     \o Join(SubSeq(semantics.hook_calls, 1,
                                                    IF Len(semantics.hook_calls) < 3
                                                    THEN Len(semantics.hook_calls) ELSE 3), ", "))
                           ELSE NoCheck)
                 ELSE Check(FALSE, "  " \o CrossMark \o " Component name should start with uppercase")
            ELSE NoCheck
        prop_types ==
            IF Get(func_spec, "has_prop_types", FALSE)
            THEN LET ok == ImportsReprContains(parsed_code, "PropTypes")
                 IN  Check(ok, IF ok THEN "  " \o CheckMark \o " PropTypes imported"
                                     ELSE "  " \o WarnSign \o " PropTypes not imported")
            ELSE NoCheck
        export ==
            IF Get(func_spec, "has_export", FALSE)
            THEN LET exports == Get(parsed_code, "exports", <<>>)
                     ok == \E i \in 1..Len(exports) :
                              Get(exports[i], "declaration", "") = func_name
                 IN  Check(ok, IF ok THEN "  " \o CheckMark \o " Function is exported"
                                     ELSE "  " \o CrossMark \o " Function is not exported")
            ELSE NoCheck
    IN  IF IsStr(func_spec) THEN exists
        ELSE AllOf(<< exists, params, component, prop_types, export >>)

\* a result that passes when nothing was checked, which C15 rules out
structure_result_vacuous(checks, no_checks_detail) ==
    IF checks.t = 0
    THEN [passed |-> TRUE, score |-> R100, details |-> << no_checks_detail >>]
    ELSE [passed |-> checks.p = checks.t,
          score |-> RMul(Rat(checks.p, checks.t), R100),
          details |-> checks.d]

\* The score and result both tiers build from their counters.
structure_result(checks, no_checks_detail) ==
    IF checks.t = 0
    THEN [passed |-> FALSE, score |-> R0, details |-> << no_checks_detail >>]
    ELSE [passed |-> checks.p = checks.t,
          score |-> RMul(Rat(checks.p, checks.t), R100),
          details |-> checks.d]

\* checks_passed, total_checks and details as the beginner loops leave them.
beginner_structure_checks(parsed_code, required_structure) ==
    LET framework == Get(parsed_code, "framework", "unknown")
        semantics == Get(parsed_code, "semantics", <<>>)
        class_specs == Get(required_structure, "classes", <<>>)
        func_specs == Get(required_structure, "functions", <<>>)
        classes == AllOf([i \in 1..Len(class_specs) |->
                        beginner_class_check(parsed_code, class_specs[i], framework, semantics)])
        functions == AllOf([i \in 1..Len(func_specs) |->
                        beginner_function_check(parsed_code, func_specs[i], framework, semantics)])
    IN  Both(classes, functions)

beginner_validate_structure_enhanced(parsed_code, required_structure) ==
    structure_result(beginner_structure_checks(parsed_code, required_structure),
        WarnEmoji \o " No structure validation performed - check validation spec format")


(* EnhancedIntermediateValidator._validate_structure_enhanced *)
intermediate_class_check(parsed_code, class_spec, framework, semantics) ==
    IF IsStr(class_spec) \/ Get(class_spec, "name", "") = "" THEN NoCheck
    ELSE
    LET class_name == class_spec.name
        found == FindByName(Get(parsed_code, "classes", <<>>), class_name)
        parent_class == Get(class_spec, "parent_class", "")
    IN
    IF found = <<>>
    THEN Check(FALSE, CrossMark \o " Class '" \o class_name \o "' not found")
    ELSE
    LET exists == Check(TRUE, CheckMark \o " Class '" \o class_name \o "' found")
        \* _validate_django_class
        django ==
            IF framework # "django" THEN NoCheck
            ELSE IF EndsWith(class_name, "Model") \/ Contains(parent_class, "Model")
            THEN LET n == Get(semantics, "model_fields", 0)
                 IN  IF n > 0
                     THEN Note("  " \o CheckMark \o " Model has " \o ToString(n) \o " fields")
                     ELSE Note("  " \o WarnEmoji \o " Model has no fields defined")
            ELSE IF Contains(parent_class, "View") /\ Get(semantics, "view_methods", <<>>) # <<>>
            THEN Note("  " \o CheckMark \o " View has methods: " \o Join(semantics.view_methods, ", "))
            ELSE NoCheck
        \* _validate_react_class
        react ==
            IF framework = "react" /\ Contains(parent_class, "Component")
            THEN Both(IF Get(semantics, "class_components", 0) > 0
                      THEN Note("  " \o CheckMark \o " React class component") ELSE NoCheck,
                      IF \E i \in 1..Len(Get(found[1], "methods", <<>>)) :
                            found[1].methods[i].name \in
                                {"componentDidMount", "componentDidUpdate",
                                 "componentWillUnmount", "render"}
                      THEN Note("  " \o CheckMark \o " Has lifecycle methods") ELSE NoCheck)
            ELSE NoCheck
    IN  AllOf(<< exists, django, react >>)

intermediate_function_check(parsed_code, func_spec, framework, semantics) ==
    IF IsStr(func_spec) \/ Get(func_spec, "name", "") = "" THEN NoCheck
    ELSE
    LET func_name == func_spec.name
        found == FindByName(Get(parsed_code, "functions", <<>>), func_name)
    IN
    IF found = <<>>
    THEN Check(FALSE, CrossMark \o " Function '" \o func_name \o "' not found")
    ELSE
    LET exists == Check(TRUE, CheckMark \o " Function '" \o func_name \o "' found")
        params ==
            IF "params" \in DOMAIN func_spec
            THEN LET actual_params == Get(found[1], "params", <<>>)
                     ok == \A i \in 1..Len(func_spec.params) :
                              InSeq(func_spec.params[i], actual_params)
                 IN  Check(ok, IF ok THEN "  " \o CheckMark \o " Parameters correct"
                                     ELSE "  " \o CrossMark \o " Parameters mismatch")
            ELSE NoCheck
        \* _validate_django_function
        django ==
            IF framework # "django" THEN NoCheck
            ELSE Both(
                IF /\ \/ Contains(Lower(func_name), "view")
                      \/ Contains(Lower(func_name), "handler")
                   /\ Get(semantics, "view_decorators", <<>>) # <<>>
                THEN Note("  " \o CheckMark \o " View function with decorators: "
                          \o Join(semantics.view_decorators, ", "))
                ELSE NoCheck,
                IF /\ \/ Contains(Lower(func_name), "permission")
                      \/ Contains(Lower(func_name), "role")
                   /\ Get(semantics, "permission_checks", 0) > 0
                THEN Note("  " \o CheckMark \o " Function performs permission checks")
                ELSE NoCheck)
        \* _validate_react_function
        react ==
            IF framework # "react" THEN NoCheck
            ELSE IF StartsWith(func_name, "use")
            THEN IF InSeq(func_name, Get(semantics, "custom_hooks", <<>>))
                 THEN Note("  " \o CheckMark \o " Custom hook implementation") ELSE NoCheck
            ELSE IF /\ \/ IsUpperChar(SubSeq(func_name, 1, 1))
                       \/ Contains(func_name, "Component")
                    /\ Get(semantics, "hook_calls", <<>>) # <<>>
            THEN Note("  " \o CheckMark \o " Function uses React hooks")
            ELSE NoCheck
    IN  AllOf(<< exists, params, django, react >>)

intermediate_structure_checks(parsed_code, required_structure) ==
    LET framework == Get(parsed_code, "framework", "unknown")
        semantics == Get(parsed_code, "semantics", <<>>)
        class_specs == Get(required_structure, "classes", <<>>)
        func_specs == Get(required_structure, "functions", <<>>)
        classes == AllOf([i \in 1..Len(class_specs) |->
                        intermediate_class_check(parsed_code, class_specs[i], framework, semantics)])
        functions == AllOf([i \in 1..Len(func_specs) |->
                        intermediate_function_check(parsed_code, func_specs[i], framework, semantics)])
    IN  Both(classes, functions)

intermediate_validate_structure_enhanced(parsed_code, required_structure) ==
    structure_result(intermediate_structure_checks(parsed_code, required_structure),
        WarnEmoji \o " No structure validation")


(* ------------------------- behavior patterns -------------------------- *)
(* A legacy free-text pattern is [str |-> text]; a structured pattern is a *)
(* record of string fields, `type` among them.                             *)

\* str(pattern) of a dict pattern, keys in the order they are written.
PatternKeyOrder == << "type", "hook", "operation", "description", "conditional_type" >>

DictRepr(pattern) ==
    LET keys == SelectSeq(PatternKeyOrder, LAMBDA k : k \in DOMAIN pattern)
    IN  "{" \o Join([i \in 1..Len(keys) |->
                        "'" \o keys[i] \o "': '" \o pattern[keys[i]] \o "'"], ", ") \o "}"

\* [kw.lower() for kw in text.split() if len(kw) > 3], any(kw in code.lower())
keyword_match(text, code) ==
    LET kws == SelectSeq(Words(text), LAMBDA w : Len(w) > 3)
        code_lower == Lower(code.text)
    IN  \E i \in 1..Len(kws) : Contains(code_lower, Lower(kws[i]))

Truthy(semantics) == DOMAIN semantics # {}

(* BeginnerValidator._validate_string_pattern_enhanced *)
validate_string_pattern_enhanced(pattern, code, semantics, framework) ==
    LET pattern_lower == Lower(pattern)
        has(w) == Contains(pattern_lower, w)
        hooks == Get(semantics, "hook_calls", <<>>)
        ops == Get(semantics, "queryset_operations", <<>>)
    IN
    IF ~ keyword_match(pattern, code) THEN FALSE
    ELSE IF ~ Truthy(semantics) THEN TRUE
    ELSE IF framework = "django" THEN
        IF has("field") /\ \E ft \in {"char", "integer", "foreign", "boolean", "date"} : has(ft)
        THEN Get(semantics, "model_fields", 0) > 0
        ELSE IF has("filter") \/ has("queryset")
        THEN InSeq("filter", ops) \/ InSeq("all", ops)
        ELSE IF has("serializer")
        THEN Get(semantics, "serializer_classes", 0) > 0
        ELSE TRUE
    ELSE IF framework = "react" THEN
        IF has("usestate") THEN InSeq("useState", hooks)
        ELSE IF has("useeffect") THEN InSeq("useEffect", hooks)
        ELSE IF has("onclick") \/ has("onchange") \/ has("event")
        THEN Get(semantics, "event_handlers", 0) > 0
        ELSE IF has("jsx") \/ has("return")
        THEN Get(semantics, "jsx_elements", 0) > 0
        ELSE TRUE
    ELSE TRUE

Result(passed, message) == [passed |-> passed, message |-> message]

\* The keyword fallback that ends _validate_structured_pattern_basic.
keyword_fallback(pattern, code) ==
    LET description == Get(pattern, "description", DictRepr(pattern))
    IN  Result(keyword_match(description, code), description)

(* BeginnerValidator._validate_structured_pattern_basic *)
validate_structured_pattern_basic(pattern, semantics, code, framework) ==
    LET pattern_type == pattern.type
        hook_name == Get(pattern, "hook", "None")
        ops == Get(semantics, "queryset_operations", <<>>)
        operation == Get(pattern, "operation", "any")
    IN
    IF framework = "react" /\ pattern_type = "hook_call" THEN
        IF InSeq(hook_name, Get(semantics, "hook_calls", <<>>))
        THEN Result(TRUE, hook_name \o " used")
        ELSE Result(FALSE, hook_name \o " not found")
    ELSE IF framework = "react" /\ pattern_type = "state_management" THEN
        IF Get(semantics, "state_declarations", 0) > 0
        THEN Result(TRUE, "State management found")
        ELSE Result(FALSE, "No state management")
    ELSE IF framework = "react" /\ pattern_type = "event_handler" THEN
        IF Get(semantics, "event_handlers", 0) > 0
        THEN Result(TRUE, "Event handlers found")
        ELSE Result(FALSE, "No event handlers")
    ELSE IF framework = "react" /\ pattern_type = "conditional_rendering" THEN
        IF \/ Contains(code.text, "?") /\ Contains(code.text, ":")
           \/ Contains(code.text, "&&")
        THEN Result(TRUE, "Conditional rendering found")
        ELSE Result(FALSE, "No conditional rendering")
    ELSE IF framework = "django" /\ pattern_type = "model_field" THEN
        IF Get(semantics, "model_fields", 0) > 0
        THEN Result(TRUE, "Model fields found (" \o ToString(semantics.model_fields) \o ")")
        ELSE Result(FALSE, "No model fields")
    ELSE IF framework = "django" /\ pattern_type = "queryset_operation" THEN
        IF operation = "any"
        THEN IF ops # <<>>
             THEN Result(TRUE, "Queryset operations: "
                     \o Join(SubSeq(ops, 1, IF Len(ops) < 3 THEN Len(ops) ELSE 3), ", "))
             ELSE Result(FALSE, "No queryset operations")
        ELSE IF InSeq(operation, ops)
             THEN Result(TRUE, "Queryset ." \o operation \o "() found")
             ELSE Result(FALSE, "Queryset ." \o operation \o "() not found")
    ELSE IF framework = "django" /\ pattern_type = "serializer" THEN
        IF Get(semantics, "serializer_classes", 0) > 0
        THEN Result(TRUE, "Serializer found")
        ELSE Result(FALSE, "No serializer")
    ELSE keyword_fallback(pattern, code)

\* One pattern's contribution: 1 or 0 matched, and its detail line.
Matched(result) ==
    [m |-> IF result.passed THEN 1 ELSE 0,
     d |-> << (IF result.passed THEN CheckMark ELSE CrossMark) \o " " \o result.message >>]

beginner_pattern(pattern, code, semantics, framework) ==
    IF IsStr(pattern)
    THEN Matched(Result(validate_string_pattern_enhanced(pattern.str, code, semantics, framework),
                        pattern.str))
    ELSE IF Get(pattern, "type", "") # ""
    THEN Matched(validate_structured_pattern_basic(pattern, semantics, code, framework))
    ELSE Matched(Result(keyword_match(DictRepr(pattern), code), DictRepr(pattern)))

\* a behavior result that passes on any match, which C20 rules out
behavior_result_any(per_pattern) ==
    LET matched == SumOver(per_pattern, LAMBDA r : r.m)
        total == Len(per_pattern)
    IN  [passed |-> matched > 0,
         score |-> IF total > 0 THEN RMul(Rat(matched, total), R100) ELSE R0,
         details |-> Flatten([i \in 1..total |-> per_pattern[i].d])]

\* a behavior score that is not divided by the number of patterns, which
\* C21 rules out
behavior_result_unscaled(per_pattern) ==
    LET matched == SumOver(per_pattern, LAMBDA r : r.m)
        total == Len(per_pattern)
    IN  [passed |-> matched = total,
         score |-> RMul(RInt(matched), R100),
         details |-> Flatten([i \in 1..total |-> per_pattern[i].d])]

\* matched / total * 100 and the result dict, as both tiers end.
behavior_result(per_pattern) ==
    LET matched == SumOver(per_pattern, LAMBDA r : r.m)
        total == Len(per_pattern)
    IN  [passed |-> matched = total,
         score |-> IF total > 0 THEN RMul(Rat(matched, total), R100) ELSE R0,
         details |-> Flatten([i \in 1..total |-> per_pattern[i].d])]

(* BeginnerValidator._validate_behavior_enhanced *)
beginner_validate_behavior_enhanced(parsed_code, behavior_patterns, code) ==
    IF behavior_patterns = <<>>
    THEN [passed |-> TRUE, score |-> R100, details |-> << "No behavior patterns required" >>]
    ELSE LET framework == Get(parsed_code, "framework", "unknown")
             semantics == Get(parsed_code, "semantics", <<>>)
         IN  behavior_result([i \in 1..Len(behavior_patterns) |->
                beginner_pattern(behavior_patterns[i], code, semantics, framework)])

(* EnhancedIntermediateValidator: the dispatch tables *)
DjangoPatternTypes ==
    {"model_field", "view_method", "permission_check", "middleware", "serializer",
     "queryset_operation", "decorator", "authentication", "url_pattern",
     "template_usage", "form_validation", "signal_handler", "test_case"}

ReactPatternTypes ==
    {"hook_call", "component_props", "state_management", "effect_usage",
     "event_handler", "form_handling", "routing", "api_call", "memoization",
     "custom_hook", "context_usage", "ref_usage", "conditional_rendering",
     "ternary_operator", "default_props", "prop_types"}

GenericPatternTypes ==
    {"constructor_call", "method_call", "async_pattern", "return_statement",
     "cleanup_function"}

\* A dedicated validator: it passes iff the profile holds what it looks for.
dedicated_validator(pattern_type, pattern, semantics) ==
    IF pattern_type = "hook_call" THEN
        LET hook_name == Get(pattern, "hook", "None")
            min_calls == Get(pattern, "min_calls", 1)
            hook_calls == Get(semantics, "hook_calls", <<>>)
            actual_calls == Cardinality({i \in 1..Len(hook_calls) : hook_calls[i] = hook_name})
            required == " (required: " \o ToString(min_calls) \o ")"
        IN  IF actual_calls = 0
            THEN Result(FALSE, hook_name \o " not called" \o required)
            ELSE IF actual_calls >= min_calls
            THEN Result(TRUE, hook_name \o " called " \o ToString(actual_calls)
                                \o " times" \o required)
            ELSE Result(FALSE, hook_name \o " called only " \o ToString(actual_calls)
                                \o " times" \o required)
    ELSE IF pattern_type = "queryset_operation" THEN
        LET operation == Get(pattern, "operation", "None")
        IN  IF InSeq(operation, Get(semantics, "queryset_operations", <<>>))
            THEN Result(TRUE, "Queryset operation '" \o operation \o "' found")
            ELSE Result(FALSE, "Queryset operation '" \o operation \o "' not found")
    ELSE IF pattern_type \in Get(semantics, "accepts", {})
         THEN Result(TRUE, pattern_type \o " found")
         ELSE Result(FALSE, pattern_type \o " not found")

validate_generic_pattern(pattern_type, pattern, semantics, code) ==
    IF pattern_type \in GenericPatternTypes
    THEN dedicated_validator(pattern_type, pattern, semantics)
    ELSE Result(FALSE, "Unknown pattern type: " \o pattern_type)

validate_django_pattern(pattern_type, pattern, semantics, code) ==
    IF pattern_type \in DjangoPatternTypes
    THEN dedicated_validator(pattern_type, pattern, semantics)
    ELSE validate_generic_pattern(pattern_type, pattern, semantics, code)

\* len(list(re.finditer(r'\?\s*[^:]+\s*:\s*', code))): the colons that end a
\* match, each the first `:` after a `?` that does not stand right before it.
ternary_count(text) ==
    Cardinality({ j \in 1..Len(text) :
        /\ SubSeq(text, j, j) = ":"
        /\ \E i \in 1..(j - 2) :
              /\ SubSeq(text, i, i) = "?"
              /\ \A k \in (i + 1)..(j - 1) : SubSeq(text, k, k) # ":" })

(* EnhancedIntermediateValidator._validate_react_conditional_rendering,    *)
(* conditional_type 'ternary'; the other types through the profile.        *)
validate_react_conditional_rendering(pattern, semantics, code) ==
    IF Get(pattern, "conditional_type", "any") = "ternary"
    THEN IF ternary_count(code.text) > 0
         THEN Result(TRUE, "Ternary operator used (" \o ToString(ternary_count(code.text))
                              \o " instances)")
         ELSE Result(FALSE, "Ternary operator not found")
    ELSE dedicated_validator("conditional_rendering", pattern, semantics)

\* pattern['conditional_type'] = 'ternary'
ternary_alias(pattern) == Merge(pattern, [conditional_type |-> "ternary"])

\* The pattern dict as _validate_react_pattern leaves it.
pattern_after_react(pattern_type, pattern) ==
    IF pattern_type = "ternary_operator" THEN ternary_alias(pattern) ELSE pattern

validate_react_pattern(pattern_type, pattern, semantics, code) ==
    IF pattern_type = "ternary_operator"
    THEN validate_react_conditional_rendering(ternary_alias(pattern), semantics, code)
    ELSE IF pattern_type \in ReactPatternTypes
    THEN dedicated_validator(pattern_type, pattern, semantics)
    ELSE validate_generic_pattern(pattern_type, pattern, semantics, code)

validate_express_pattern(pattern_type, pattern, semantics, code) ==
    Result(FALSE, "Express pattern validation not implemented: " \o pattern_type)

validate_angular_pattern(pattern_type, pattern, semantics, code) ==
    Result(FALSE, "Angular pattern validation not implemented: " \o pattern_type)

(* EnhancedIntermediateValidator._validate_structured_pattern *)
validate_structured_pattern(pattern, semantics, code, framework) ==
    LET pattern_type == Get(pattern, "type", "None") IN
    CASE framework = "django"  -> validate_django_pattern(pattern_type, pattern, semantics, code)
      [] framework = "react"   -> validate_react_pattern(pattern_type, pattern, semantics, code)
      [] framework = "express" -> validate_express_pattern(pattern_type, pattern, semantics, code)
      [] framework = "angular" -> validate_angular_pattern(pattern_type, pattern, semantics, code)
      [] OTHER -> validate_generic_pattern(pattern_type, pattern, semantics, code)

validate_legacy_pattern(pattern, code) == Result(keyword_match(pattern, code), pattern)

intermediate_pattern(pattern, code, semantics, framework) ==
    IF IsStr(pattern)
    THEN Matched(validate_legacy_pattern(pattern.str, code))
    ELSE Matched(validate_structured_pattern(pattern, semantics, code, framework))

\* The behavior_patterns list after the loop of _validate_behavior_enhanced:
\* the patterns are the dicts of the problem's validation_spec, not copies.
patterns_after_intermediate(behavior_patterns, framework) ==
    [i \in 1..Len(behavior_patterns) |->
        LET pattern == behavior_patterns[i] IN
        IF ~ IsStr(pattern) /\ framework = "react"
        THEN pattern_after_react(Get(pattern, "type", "None"), pattern)
        ELSE pattern]

(* EnhancedIntermediateValidator._validate_behavior_enhanced *)
intermediate_validate_behavior_enhanced(parsed_code, behavior_patterns, code, framework) ==
    IF behavior_patterns = <<>>
    THEN [passed |-> TRUE, score |-> R100, details |-> << "No behavior patterns required" >>]
    ELSE LET semantics == Get(parsed_code, "semantics", <<>>)
         IN  behavior_result([i \in 1..Len(behavior_patterns) |->
                intermediate_pattern(behavior_patterns[i], code, semantics, framework)])


(* ------------------------- semantic analyzers ------------------------- *)

KnownFrameworks == {"django", "react", "express", "angular", "nodejs"}

AbstractClassError ==
    "Can't instantiate abstract class BaseSemanticAnalyzer with abstract method analyze"

(* FrameworkAnalyzerFactory.create_analyzer: the analyzer class it         *)
(* instantiates, or the TypeError that instantiating the abstract base     *)
(* class raises.                                                           *)
create_analyzer(framework) ==
    LET framework_lower == Lower(framework) IN
    IF framework_lower \in KnownFrameworks
    THEN [analyzer |-> framework_lower]
    ELSE [raises |-> AbstractClassError]

\* <Framework>SemanticAnalyzer.analyze
analyze(analyzer, code) ==
    CASE analyzer = "django" -> code.django
      [] analyzer = "react"  -> code.react
      [] OTHER -> [framework |-> analyzer, status |-> "analyzer_not_implemented"]

Raised(x) == "raises" \in DOMAIN x

WithSemantics(parsed_code, semantics, framework) ==
    Merge(parsed_code, [semantics |-> semantics, framework |-> framework])

(* BeginnerValidator.validate *)
beginner_validate(parsed_code, validation_spec, code) ==
    LET framework == Get(validation_spec, "framework", "unknown")
        made == IF framework # "unknown" THEN create_analyzer(framework) ELSE [skipped |-> TRUE]
    IN
    IF Raised(made) THEN made
    ELSE LET parsed == IF framework # "unknown"
                       THEN WithSemantics(parsed_code, analyze(made.analyzer, code), framework)
                       ELSE parsed_code
         IN  [imports |-> validate_imports_common(parsed,
                              Get(validation_spec, "required_imports", <<>>)),
              structure |-> beginner_validate_structure_enhanced(parsed,
                              Get(validation_spec, "required_structure", <<>>)),
              behavior |-> beginner_validate_behavior_enhanced(parsed,
                              Get(validation_spec, "behavior_patterns", <<>>), code)]

(* EnhancedIntermediateValidator.validate *)
intermediate_validate(parsed_code, validation_spec, code) ==
    LET framework == Get(validation_spec, "framework", "unknown")
        made == create_analyzer(framework)
    IN
    IF Raised(made) THEN made
    ELSE LET parsed == WithSemantics(parsed_code, analyze(made.analyzer, code), framework)
         IN  [imports |-> validate_imports_common(parsed,
                              Get(validation_spec, "required_imports", <<>>)),
              structure |-> intermediate_validate_structure_enhanced(parsed,
                              Get(validation_spec, "required_structure", <<>>)),
              behavior |-> intermediate_validate_behavior_enhanced(parsed,
                              Get(validation_spec, "behavior_patterns", <<>>), code, framework)]

\* validation_spec after validator.validate returned: the beginner tier
\* only reads it, the intermediate tier's behavior loop writes into it.
spec_after_validate(validator, validation_spec) ==
    LET framework == Get(validation_spec, "framework", "unknown") IN
    IF /\ validator = "EnhancedIntermediateValidator"
       /\ ~ Raised(create_analyzer(framework))
       /\ "behavior_patterns" \in DOMAIN validation_spec
    THEN [validation_spec EXCEPT
            !.behavior_patterns = patterns_after_intermediate(@, framework)]
    ELSE validation_spec

(* ---------------------- EnhancedValidationEngine ---------------------- *)

\* self.validators, in order
Validators == << "BeginnerValidator", "EnhancedIntermediateValidator" >>

can_handle(validator, difficulty, framework) ==
    IF validator = "BeginnerValidator"
    THEN difficulty \in {"beginner", "easy"}
    ELSE difficulty \in {"intermediate", "medium"}

\* a selection that falls back on the first tier, which C12 rules out
select_validator_default(difficulty, framework) ==
    LET able == SelectSeq(Validators, LAMBDA v : can_handle(v, difficulty, framework))
    IN  IF able = <<>> THEN Some(Validators[1]) ELSE Some(able[1])

\* The first validator that can handle the difficulty, or None.
select_validator(difficulty, framework) ==
    LET able == SelectSeq(Validators, LAMBDA v : can_handle(v, difficulty, framework))
    IN  IF able = <<>> THEN None ELSE Some(able[1])

Components == << "imports", "structure", "behavior" >>

WeightKey(component) ==
    CASE component = "imports"   -> "import_weight"
      [] component = "structure" -> "structure_weight"
      [] OTHER                   -> "behavior_weight"

DefaultWeight(component) ==
    CASE component = "imports"   -> RInt(15)
      [] component = "structure" -> RInt(25)
      [] OTHER                   -> RInt(60)

(* EnhancedValidationEngine._calculate_overall_score *)
calculate_overall_score(results, validation_spec) ==
    LET scoring == Get(validation_spec, "scoring", <<>>)
        weight(c) == Get(scoring, WeightKey(c), DefaultWeight(c))
        present == SelectSeq(Components, LAMBDA c : c \in DOMAIN results)
        RSum[i \in 0..Len(present)] ==
            IF i = 0 THEN [score |-> R0, weight |-> R0]
            ELSE [score |-> RAdd(RSum[i-1].score,
                                 RMul(Get(results[present[i]], "score", R0),
                                      RDiv(weight(present[i]), R100))),
                  weight |-> RAdd(RSum[i-1].weight, weight(present[i]))]
        total_score == RSum[Len(present)].score
        total_weight == RSum[Len(present)].weight
    IN  IF total_weight = R0 THEN R0
        ELSE RMul(RDiv(total_score, total_weight), R100)

ZeroComponent(details) == [passed |-> FALSE, score |-> R0, details |-> details]

\* validate_submission: 'passed' of the result it returns
engine_passed(overall_score, validation_spec) ==
    RGe(overall_score, Get(validation_spec, "passing_score", RInt(70)))

(* EnhancedValidationEngine.validate_submission *)
engine_validate_submission(parsed_code, validation_spec, code) ==
    LET difficulty == Get(validation_spec, "difficulty", "beginner")
        framework == Get(validation_spec, "framework", "unknown")
        validator == select_validator(difficulty, framework)
    IN
    IF validator = None
    THEN [error |-> "No validator found for difficulty: " \o difficulty
                        \o ", framework: " \o framework,
          overall_score |-> R0, passed |-> FALSE]
    ELSE LET results == IF validator[1] = "BeginnerValidator"
                        THEN beginner_validate(parsed_code, validation_spec, code)
                        ELSE intermediate_validate(parsed_code, validation_spec, code)
         IN  IF Raised(results)
             THEN [error |-> "Validation error: " \o results.raises,
                   overall_score |-> R0, passed |-> FALSE,
                   imports |-> ZeroComponent(<<>>),
                   structure |-> ZeroComponent(<< results.raises >>),
                   behavior |-> ZeroComponent(<<>>)]
             ELSE LET overall_score == calculate_overall_score(results, validation_spec)
                  IN  Merge(results,
                        [overall_score |-> overall_score,
                         passed |-> engine_passed(overall_score, validation_spec),
                         validator_used |-> validator[1]])

\* validation_spec after EnhancedValidationEngine.validate_submission
spec_after_engine(validation_spec) ==
    LET validator == select_validator(Get(validation_spec, "difficulty", "beginner"),
                                      Get(validation_spec, "framework", "unknown"))
    IN  IF validator = None THEN validation_spec
        ELSE spec_after_validate(validator[1], validation_spec)


(* ------------------------------ scorers ------------------------------- *)

\* round(x, 2) of a non-negative score (ties to even).
Round2(x) ==
    LET num == x.n * 100
        q == num \div x.d
        r == num % x.d
        up == \/ 2 * r > x.d
              \/ 2 * r = x.d /\ q % 2 = 1
    IN  Rat(IF up THEN q + 1 ELSE q, 100)

\* a scorer that rewards what is missing, which C6 rules out
calculate_score_inverted(component, component_results, weight) ==
    [component |-> component,
     raw_score |-> Get(component_results, "score", R0),
     weight |-> weight,
     weighted_score |-> Round2(RDiv(RMul(RAdd(R100, RMul(RInt(-1),
                            Get(component_results, "score", R0))), weight), R100)),
     passed |-> Get(component_results, "passed", FALSE),
     details |-> Get(component_results, "details", <<>>)]

(* ImportScorer / StructureScorer / BehaviorScorer .calculate_score *)
calculate_score(component, component_results, weight) ==
    LET raw_score == Get(component_results, "score", R0)
        weighted_score == RDiv(RMul(raw_score, weight), R100)
    IN  [component |-> component,
         raw_score |-> raw_score,
         weight |-> weight,
         weighted_score |-> Round2(weighted_score),
         passed |-> Get(component_results, "passed", FALSE),
         details |-> Get(component_results, "details", <<>>)]

\* sum(comp['weighted_score'] for comp in component_scores)
RECURSIVE RSumFrom(_, _)
RSumFrom(component_scores, k) ==
    IF k > Len(component_scores) THEN R0
    ELSE RAdd(component_scores[k].weighted_score, RSumFrom(component_scores, k + 1))

PartialFactor == Rat(6, 10)

\* The verdict ladder of aggregate_scores.
aggregate_verdict(total_score, passing_score) ==
    IF RGe(total_score, passing_score) THEN "accepted"
    ELSE IF RGe(total_score, RMul(passing_score, PartialFactor)) THEN "partially_passed"
    ELSE "failed"

\* the sum left as it is, which C5 rules out
aggregate_total_unclamped(component_scores) == RSumFrom(component_scores, 1)

\* min(sum of weighted scores, 100.0)
aggregate_total(component_scores) == RMin(RSumFrom(component_scores, 1), R100)

(* ScoreAggregator.aggregate_scores *)
aggregate_scores(component_scores, passing_score) ==
    LET total_score == aggregate_total(component_scores)
        names == {component_scores[k].component : k \in 1..Len(component_scores)}
        last(c) == component_scores[CHOOSE k \in 1..Len(component_scores) :
                        /\ component_scores[k].component = c
                        /\ \A j \in (k+1)..Len(component_scores) :
                                component_scores[j].component # c]
    IN  [total_score |-> Round2(total_score),
         passing_score |-> passing_score,
         passed |-> RGe(total_score, passing_score),
         verdict |-> aggregate_verdict(total_score, passing_score),
         breakdown |->
            [c \in names \cup {"summary"} |->
                IF c \in names
                THEN [raw_score |-> Round2(last(c).raw_score),
                      weight |-> last(c).weight,
                      weighted_score |-> Round2(last(c).weighted_score),
                      passed |-> last(c).passed,
                      max_possible |-> Round2(RMul(last(c).weight, R100))]
                ELSE [total_score |-> Round2(total_score),
                      passing_score |-> passing_score,
                      components_count |-> Len(component_scores),
                      components_passed |->
                          SumOver(component_scores, LAMBDA comp : IF comp.passed THEN 1 ELSE 0)]]]

(* ScoreAggregator.calculate_weighted_score: weight between 0 and 1 *)
calculate_weighted_score(raw_score, weight) ==
    Round2(RMul(RMul(RDiv(raw_score, R100), weight), R100))

(* -------------------------- FeedbackGenerator ------------------------- *)

Item(type, message, line, column) ==
    [type |-> type, message |-> message, line |-> line, column |-> column]

Plain(type, message) == Item(type, message, None, None)

\* str.strip() of blanks
Strip(s) ==
    LET inked == {i \in 1..Len(s) : SubSeq(s, i, i) # " "}
    IN  IF inked = {} THEN ""
        ELSE SubSeq(s, CHOOSE i \in inked : \A j \in inked : i <= j,
                       CHOOSE i \in inked : \A j \in inked : i >= j)

\* a detector that knows one of the two sentinels, which C14 rules out
is_old_format_error_one_sentinel(structure_res) ==
    LET details == Get(structure_res, "details", <<>>)
    IN  IF details = <<>> THEN FALSE
        ELSE Contains(details[1], "PROBLEM DEFINITION ERROR")

is_old_format_error(structure_res) ==
    LET details == Get(structure_res, "details", <<>>)
    IN  IF details = <<>> THEN FALSE
        ELSE \/ Contains(details[1], "PROBLEM DEFINITION ERROR")
             \/ Contains(details[1], "outdated validation format")

add_old_format_warning(structure_res) ==
    LET details == Get(structure_res, "details", <<>>)
        expected == SelectSeq(details, LAMBDA d : Contains(d, "Expected format"))
    IN  << Plain("error", "PROBLEM CONFIGURATION ERROR"),
           Plain("warning", WarnEmoji \o " This problem uses an outdated validation format and cannot be graded.") >>
        \o [k \in 1..Len(expected) |-> Plain("info", InfoEmoji \o " " \o expected[k])]
        \o << Plain("info", "What to do: Contact the course administrator to update this problem."),
              Plain("info", "For admins: Update the validation_spec") >>

\* The message type _add_component_feedback gives one detail line.
detail_type(detail) ==
    IF \/ StartsWith(detail, CheckMark)
       \/ Contains(Lower(detail), "found") /\ Contains(detail, CheckMark)
    THEN "success"
    ELSE IF \/ StartsWith(detail, CrossMark)
            \/ Contains(Lower(detail), "missing")
            \/ Contains(Lower(detail), "not found")
    THEN "error"
    ELSE "info"

add_component_feedback(component_result, component_name) ==
    IF ~ Truthy(component_result) THEN <<>>
    ELSE LET passed == Get(component_result, "passed", FALSE)
             details == Get(component_result, "details", <<>>)
         IN  << Plain(IF passed THEN "info" ELSE "warning", component_name \o ": Score") >>
             \o [k \in 1..Len(details) |->
                    Plain(detail_type(details[k]),
                          (IF StartsWith(details[k], "  ") THEN "  " ELSE "")
                              \o Strip(details[k]))]

HintImports == "Tip: Check that all required imports are included at the top of your file"
HintNames == "Tip: Make sure your class/function names match the requirements exactly"
HintMethods == "Tip: Check that you've implemented all required methods/functions"
HintBehavior == "Tip: Review the problem requirements - your code may be missing key functionality"

LowScore == RInt(50)

add_helpful_hints(validation_results) ==
    LET low(c) == RLt(Get(Get(validation_results, c, <<>>), "score", R0), LowScore)
        hints == (IF low("imports") THEN << HintImports >> ELSE <<>>)
              \o (IF low("structure") THEN << HintNames, HintMethods >> ELSE <<>>)
              \o (IF low("behavior") THEN << HintBehavior >> ELSE <<>>)
    IN  IF hints = <<>> THEN <<>>
        ELSE << Plain("info", "") >> \o [k \in 1..Len(hints) |-> Plain("info", hints[k])]

(* FeedbackGenerator._add_semantic_feedback *)
add_semantic_feedback(semantic_result) ==
    LET patterns_checked == Get(semantic_result, "patterns_checked", <<>>)
        details == Get(semantic_result, "details", <<>>)
    IN  << Plain("info", "Advanced Pattern Analysis:") >>
        \o (IF patterns_checked # <<>>
            THEN << Plain("info", "  Patterns analyzed: " \o Join(patterns_checked, ", ")) >>
            ELSE <<>>)
        \o [k \in 1..Len(details) |->
               Plain(IF StartsWith(details[k], CheckMark) THEN "success"
                     ELSE IF StartsWith(details[k], CrossMark) THEN "warning"
                     ELSE "info",
                     "  " \o details[k])]

verdict_item(verdict) ==
    IF verdict = "accepted" THEN Plain("success", "Solution Accepted!")
    ELSE IF verdict = "partially_passed" THEN Plain("warning", WarnEmoji \o " Partially Correct.")
    ELSE Plain("error", "Solution Failed.")

\* feedback that adds a tip to the syntax error, which C8 rules out
generate_feedback_with_tip(validation_results) ==
    << Plain("error", "Syntax Error"), Plain("info", HintImports) >>

(* FeedbackGenerator.generate_feedback *)
generate_feedback(validation_results) ==
    IF ~ Get(validation_results, "parse_success", FALSE)
    THEN << Item("error",
                 "Syntax Error: " \o Get(validation_results, "parse_error",
                                         Some("Unknown syntax error"))[1],
                 Get(validation_results, "error_line", None),
                 Get(validation_results, "error_offset", None)) >>
    ELSE LET structure_res == Get(validation_results, "structure", <<>>) IN
         IF is_old_format_error(structure_res)
         THEN add_old_format_warning(structure_res)
         ELSE << verdict_item(Get(validation_results, "verdict", "None")) >>
              \o add_component_feedback(Get(validation_results, "imports", <<>>), "Imports")
              \o add_component_feedback(structure_res, "Structure")
              \o add_component_feedback(Get(validation_results, "behavior", <<>>), "Behavior")
              \o (LET semantic_result == Get(validation_results, "semantic", <<>>)
                  IN  IF /\ Truthy(semantic_result)
                         /\ Get(semantic_result, "patterns_checked", <<>>) # <<>>
                      THEN add_semantic_feedback(semantic_result) ELSE <<>>)
              \o (IF RLt(Get(validation_results, "total_score", R0), LowScore)
                  THEN add_helpful_hints(validation_results) ELSE <<>>)


(* -------------------------- SubmissionService ------------------------- *)

(* SubmissionService._determine_language *)
determine_language(framework_name) ==
    CASE framework_name = "django"  -> "python"
      [] framework_name = "react"   -> "javascript"
      [] framework_name = "angular" -> "typescript"
      [] framework_name = "express" -> "javascript"
      [] OTHER                      -> "python"

\* validate_submission: what it returns when parsing failed.
syntax_error_outcome(parsed) ==
    [verdict |-> "syntax_error",
     score |-> R0,
     parse_success |-> FALSE,
     parse_error |-> Get(parsed, "error", None),
     error_line |-> Get(parsed, "line", None),
     error_offset |-> Get(parsed, "offset", None),
     validation_results |-> <<>>,
     feedback |-> generate_feedback(
                    [parse_success |-> FALSE,
                     parse_error |-> Get(parsed, "error", None),
                     error_line |-> Get(parsed, "line", None),
                     error_offset |-> Get(parsed, "offset", None),
                     verdict |-> "syntax_error",
                     total_score |-> R0]),
     matched_patterns |-> <<>>]

\* validate_submission: the validation spec it hands to the engine.
prepare_validation_spec(prob) ==
    [difficulty |-> prob.difficulty,
     framework |-> prob.framework,
     required_imports |-> Get(prob.validation_spec, "required_imports", <<>>),
     required_structure |-> Get(prob.validation_spec, "required_structure", <<>>),
     behavior_patterns |-> Get(prob.validation_spec, "behavior_patterns", <<>>),
     scoring |-> [import_weight |-> prob.import_weight,
                  structure_weight |-> prob.structure_weight,
                  behavior_weight |-> prob.behavior_weight],
     passing_score |-> prob.passing_score]

\* The problem after the engine returned: the lists and dicts handed to the
\* engine are those of problem.validation_spec.
problem_after_engine(prob) ==
    IF "behavior_patterns" \in DOMAIN prob.validation_spec
    THEN [prob EXCEPT !.validation_spec.behavior_patterns =
                spec_after_engine(prepare_validation_spec(prob)).behavior_patterns]
    ELSE prob

\* an error outcome that tells the learner nothing, which C11 rules out
validation_error_outcome_silent(tiered) ==
    [verdict |-> "failed",
     score |-> R0,
     parse_success |-> TRUE,
     validation_error |-> tiered.error,
     validation_results |-> <<>>,
     feedback |-> <<>>,
     matched_patterns |-> <<>>]

\* validate_submission: what it returns when the engine reported an error.
validation_error_outcome(tiered) ==
    [verdict |-> "failed",
     score |-> R0,
     parse_success |-> TRUE,
     validation_error |-> tiered.error,
     validation_results |-> <<>>,
     feedback |-> << Plain("error", tiered.error) >>,
     matched_patterns |-> <<>>]

\* a ladder with strict thresholds, which C7 rules out
determine_verdict_strict(overall_score, passing) ==
    IF RLt(passing, overall_score) THEN "accepted"
    ELSE IF RLt(RMul(passing, PartialFactor), overall_score) THEN "partially_passed"
    ELSE "failed"

\* validate_submission: its own verdict ladder.
determine_verdict(overall_score, passing_score) ==
    IF RGe(overall_score, passing_score) THEN "accepted"
    ELSE IF RGe(overall_score, RMul(passing_score, PartialFactor)) THEN "partially_passed"
    ELSE "failed"

\* validate_submission: what it returns for a graded submission.
graded_outcome(prob, tiered) ==
    LET overall_score == Get(tiered, "overall_score", R0)
        verdict == determine_verdict(overall_score, prob.passing_score)
        validation_results ==
            [imports |-> Get(tiered, "imports", <<>>),
             structure |-> Get(tiered, "structure", <<>>),
             behavior |-> Get(tiered, "behavior", <<>>),
             validator_used |-> Get(tiered, "validator_used", "unknown")]
    IN  [verdict |-> verdict,
         score |-> Round2(overall_score),
         parse_success |-> TRUE,
         validation_results |-> validation_results,
         feedback |-> generate_feedback(
                        [parse_success |-> TRUE,
                         imports |-> validation_results.imports,
                         structure |-> validation_results.structure,
                         behavior |-> validation_results.behavior,
                         semantic |-> <<>>,
                         verdict |-> verdict,
                         total_score |-> overall_score,
                         difficulty |-> prob.difficulty,
                         framework |-> prob.framework]),
         matched_patterns |-> Get(tiered, "matched_patterns", <<>>),
         validator_info |-> [validator_used |-> Get(tiered, "validator_used", "unknown"),
                             difficulty |-> prob.difficulty,
                             framework |-> prob.framework]]


(* ------------------------------ problems ------------------------------ *)

\* validation_spec of a Django model problem (after test_tiered_validation.py),
\* with one pattern of a type no validator knows.
BookSpec ==
    [required_imports |-> << "django.db.models" >>,
     required_structure |->
        [classes |-> << [name |-> "Book", parent_class |-> "models.Model",
                         methods |-> << "__str__" >>] >>],
     behavior_patterns |-> << [str |-> "CharField with max_length"],
                              [type |-> "bogus", description |-> "uses models"] >>]

\* validation_spec of a React counter problem, again with one unknown type.
CounterSpec ==
    [required_imports |-> << "react" >>,
     required_structure |-> [functions |-> << [name |-> "Counter"] >>],
     behavior_patterns |-> << [type |-> "bogus", description |-> "calls useState"],
                              [type |-> "hook_call", hook |-> "useState"] >>]

\* validation_spec of the repository's test script: required_structure in
\* the old shape, without `classes` or `functions`.
LegacySpec ==
    [required_imports |-> << "django.db.models" >>,
     required_structure |-> [class_name |-> "Book", parent_class |-> "models.Model",
                             methods |-> << "__str__" >>],
     behavior_patterns |-> << [str |-> "CharField with max_length"] >>]

\* validation_spec of a React problem that asks for a ternary, by the alias
\* pattern type.
ToggleSpec ==
    [required_imports |-> << "react" >>,
     required_structure |-> [functions |-> << [name |-> "Counter"] >>],
     behavior_patterns |-> << [type |-> "ternary_operator"] >>]

ValidationSpecs == { BookSpec, CounterSpec, LegacySpec, ToggleSpec }

\* A problem that requires nothing.
EmptySpec ==
    [required_imports |-> <<>>, required_structure |-> <<>>, behavior_patterns |-> <<>>]

\* Two classes, one of which no sample declares, and a view function.
LibrarySpec ==
    [required_imports |-> << ".serializers", "numpy", "django.db.models" >>,
     required_structure |->
        [classes |-> << [name |-> "Book", parent_class |-> "models.Model",
                         methods |-> << "__str__" >>],
                        [name |-> "Author", parent_class |-> "models.Model",
                         methods |-> << "__str__" >>] >>,
         functions |-> << [name |-> "get_books", params |-> << "request" >>] >>],
     behavior_patterns |-> << [type |-> "queryset_operation", operation |-> "exclude"],
                              [str |-> "filter queryset"],
                              [type |-> "queryset_operation", operation |-> "filter"] >>]

\* A functional component with its sub-requirements, a function named by a
\* plain string, and a pattern without a type.
HooksSpec ==
    [required_imports |-> << "useState", "react" >>,
     required_structure |->
        [functions |-> << [name |-> "Counter", type |-> "functional_component",
                           params |-> << "props" >>, has_export |-> TRUE],
                          [str |-> "useCounter"] >>],
     behavior_patterns |-> << [type |-> "hook_call", hook |-> "useState"],
                              [type |-> "hook_call", hook |-> "useEffect"],
                              [description |-> "renders counter value"] >>]

\* Requirements no sample meets.
AbsentSpec ==
    [required_imports |-> << "numpy", "pandas" >>,
     required_structure |-> [classes |-> << [str |-> "Ledger"] >>],
     behavior_patterns |-> << [str |-> "quaternion zeppelin"] >>]

\* A class component with its base class.
ClockSpec ==
    [required_imports |-> <<>>,
     required_structure |-> [classes |-> << [name |-> "Clock", parent_class |-> "Component"] >>],
     behavior_patterns |-> <<>>]

UnitSpecs == { BookSpec, CounterSpec, LegacySpec, EmptySpec, LibrarySpec, HooksSpec,
               AbsentSpec, ToggleSpec, ClockSpec }

Frameworks == { "django", "react", "express", "vue", "unknown" }

Difficulties == { "beginner", "intermediate", "pro" }

\* (import_weight, structure_weight, behavior_weight, passing_score): the
\* model defaults, and the weights of the repository's test fixture.
Gradings == { << 20, 35, 45, 80 >>, << 15, 40, 45, 75 >> }

Problems ==
    { [framework |-> f, difficulty |-> d, validation_spec |-> v,
       import_weight |-> RInt(g[1]), structure_weight |-> RInt(g[2]),
       behavior_weight |-> RInt(g[3]), passing_score |-> RInt(g[4])] :
      f \in Frameworks, d \in Difficulties, v \in ValidationSpecs, g \in Gradings }

(* --------------------------- the state machine ------------------------ *)

VARIABLES
    pc,              \* where validate_submission stands
    problem, code,   \* the submission being validated
    submitted,       \* submissions taken so far
    tempFiles,       \* temporary files that exist
    tempSeq,         \* temporary files created so far
    temp_path,       \* the temporary file of the running native parse
    node_outcome,    \* how the node subprocess ended
    node_result,     \* what _parse_javascript_with_node returned
    stages,          \* parser stages run for this submission, in order
    parsed_code,     \* what ParserService.parse_code returned
    tiered_results,  \* what the engine returned, None while it was not called
    outcome,         \* what validate_submission returned
    raws, weights, passing_score,   \* inputs of the scorers
    totals,          \* what the scorers, the aggregator and the engine made of them
    before,          \* inputs and totals before the last rescoring
    unit,            \* a parse result and the requirements the tiers are applied to
    unit_results,    \* what each tier's validate returned for it
    unit_checks,     \* checks_passed and total_checks of its structure validation
    feedback_for,    \* validation results handed to generate_feedback
    feedback,        \* the list generate_feedback returned
    pair,            \* two parse results, one holding all the other holds, and a required_structure
    pair_results,    \* the beginner tier's structure result for each of the two
    progress,        \* the UserProgress row of one user and one problem, None before the first attempt
    profile,         \* the counters of that user's profile
    history,         \* that user's submissions to the problem, in order
    step,            \* where the view stands with the last of them
    stats,           \* the counters of the problem's row
    requests         \* concurrently handled submissions to that problem

pipeline == << pc, problem, code, submitted, tempFiles, tempSeq, temp_path,
               node_outcome, node_result, stages, parsed_code, tiered_results,
               outcome >>

scoring == << raws, weights, passing_score, totals, before >>

units == << unit, unit_results, unit_checks >>

rendering == << feedback_for, feedback >>

comparison == << pair, pair_results >>

records == << progress, profile, history, step >>

counting == << stats, requests >>

\* what validate_submission does not touch
standalone == << scoring, units, rendering, comparison, records, counting >>

vars == << pipeline, scoring, units, rendering, comparison, records, counting >>

InitPipeline ==
    /\ pc = "idle"
    /\ problem = None
    /\ code = None
    /\ submitted = 0
    /\ tempFiles = {}
    /\ tempSeq = 0
    /\ temp_path = None
    /\ node_outcome = None
    /\ node_result = None
    /\ stages = <<>>
    /\ parsed_code = None
    /\ tiered_results = None
    /\ outcome = None

language == determine_language(problem.framework)

\* A view calls SubmissionService.validate_submission(submission).
Submit(p, c) ==
    /\ pc \in {"idle", "done"}
    /\ submitted < MaxSubmissions
    /\ submitted' = submitted + 1
    /\ problem' = p
    /\ code' = c
    /\ pc' = "parse"
    /\ temp_path' = None
    /\ node_outcome' = None
    /\ node_result' = None
    /\ stages' = <<>>
    /\ parsed_code' = None
    /\ tiered_results' = None
    /\ outcome' = None
    /\ UNCHANGED << tempFiles, tempSeq, standalone >>

\* parse_code, language python
ParsePython ==
    /\ pc = "parse"
    /\ language = "python"
    /\ parsed_code' = parse_python(code)
    /\ stages' = << "ast" >>
    /\ pc' = "parsed"
    /\ UNCHANGED << problem, code, submitted, tempFiles, tempSeq, temp_path,
                    node_outcome, node_result, tiered_results, outcome, standalone >>

\* _parse_javascript_with_node: NamedTemporaryFile(delete=False) and write
JsCreateTemp ==
    /\ pc = "parse"
    /\ language \in {"javascript", "typescript"}
    /\ tempSeq' = tempSeq + 1
    /\ temp_path' = Some(tempSeq + 1)
    /\ tempFiles' = tempFiles \cup {tempSeq + 1}
    /\ pc' = "js_node"
    /\ UNCHANGED << problem, code, submitted, node_outcome, node_result, stages, parsed_code,
                    tiered_results, outcome, standalone >>

\* _parse_javascript_with_node: the temporary file cannot be created
JsCreateTempFails ==
    /\ pc = "parse"
    /\ language \in {"javascript", "typescript"}
    /\ node_outcome' = Some("oserror")
    /\ node_result' = Some(node_result_of(code, "oserror"))
    /\ stages' = << "native" >>
    /\ pc' = "js_native_done"
    /\ UNCHANGED << problem, code, submitted, tempFiles, tempSeq, temp_path,
                    parsed_code, tiered_results, outcome, standalone >>

\* _parse_javascript_with_node: subprocess.run(['node', '-e', script]) and
\* the return that follows it
JsRunNode(o, unlinked) ==
    /\ pc = "js_node"
    /\ unlinked \in script_unlinks(o)
    /\ tempFiles' = IF unlinked THEN tempFiles \ {temp_path[1]} ELSE tempFiles
    /\ node_outcome' = Some(o)
    /\ node_result' = Some(node_result_of(code, o))
    /\ stages' = << "native" >>
    /\ pc' = "js_native_done"
    /\ UNCHANGED << problem, code, submitted, tempSeq, temp_path, parsed_code,
                    tiered_results, outcome, standalone >>

\* parse_javascript_enhanced, after the native stage returned
JsFinish ==
    /\ pc = "js_native_done"
    /\ LET done == parse_javascript_enhanced(code, node_result[1])
       IN  /\ parsed_code' = done[1]
           /\ stages' = stages \o done[2]
    /\ pc' = "parsed"
    /\ UNCHANGED << problem, code, submitted, tempFiles, tempSeq, temp_path,
                    node_outcome, node_result, tiered_results, outcome, standalone >>

\* validate_submission: `if not parsed_code.get('success')`
ReturnSyntaxError ==
    /\ pc = "parsed"
    /\ ~ Get(parsed_code, "success", FALSE)
    /\ outcome' = Some(syntax_error_outcome(parsed_code))
    /\ pc' = "done"
    /\ UNCHANGED << problem, code, submitted, tempFiles, tempSeq, temp_path,
                    node_outcome, node_result, stages, parsed_code, tiered_results, standalone >>

\* validate_submission: engine.validate_submission(parsed_code, spec, code)
RunEngine ==
    /\ pc = "parsed"
    /\ Get(parsed_code, "success", FALSE)
    /\ tiered_results' = Some(engine_validate_submission(parsed_code,
                                  prepare_validation_spec(problem), code))
    /\ problem' = problem_after_engine(problem)
    /\ pc' = "validated"
    /\ UNCHANGED << code, submitted, tempFiles, tempSeq, temp_path,
                    node_outcome, node_result, stages, parsed_code, outcome, standalone >>

\* validate_submission: `if 'error' in tiered_results`
ReturnValidationError ==
    /\ pc = "validated"
    /\ "error" \in DOMAIN tiered_results[1]
    /\ outcome' = Some(validation_error_outcome(tiered_results[1]))
    /\ pc' = "done"
    /\ UNCHANGED << problem, code, submitted, tempFiles, tempSeq, temp_path,
                    node_outcome, node_result, stages, parsed_code, tiered_results, standalone >>

\* validate_submission: verdict, feedback and the results it returns
ReturnResults ==
    /\ pc = "validated"
    /\ "error" \notin DOMAIN tiered_results[1]
    /\ outcome' = Some(graded_outcome(problem, tiered_results[1]))
    /\ pc' = "done"
    /\ UNCHANGED << problem, code, submitted, tempFiles, tempSeq, temp_path,
                    node_outcome, node_result, stages, parsed_code, tiered_results, standalone >>


(* ------------------------- scoring on its own ------------------------- *)

\* Component scores k/n * 100 for small n.
RawSamples == { R0, Rat(100, 3), RInt(50), Rat(200, 3), R100 }

\* (import, structure, behavior) weights: the model defaults, two that do
\* not sum to 100, and none at all.
WeightSamples == { << 20, 35, 45 >>, << 10, 20, 30 >>, << 60, 60, 60 >>, << 0, 0, 0 >> }

PassingSamples == { 50, 75, 80 }

WeightsOf(w) == [imports |-> RInt(w[1]), structure |-> RInt(w[2]), behavior |-> RInt(w[3])]

\* The component results a tier returns with these scores.
ResultsOf(r) ==
    [c \in {"imports", "structure", "behavior"} |->
        [passed |-> r[c] = R100, score |-> r[c], details |-> <<>>]]

\* The three scorers and the aggregator (aggregate_scores, and
\* calculate_weighted_score on each raw score and weight), and the engine
\* with the service's verdict, on the same component results.
Score(r, w, p) ==
    LET results == ResultsOf(r)
        component_scores == [k \in 1..3 |->
                                calculate_score(Components[k], results[Components[k]],
                                                w[Components[k]])]
        validation_spec == [scoring |-> [import_weight |-> w.imports,
                                         structure_weight |-> w.structure,
                                         behavior_weight |-> w.behavior],
                            passing_score |-> p]
        aggregate == aggregate_scores(component_scores, p)
        overall == calculate_overall_score(results, validation_spec)
    IN  [component_scores |-> component_scores,
         contributions |-> [k \in 1..3 |->
                               calculate_weighted_score(r[Components[k]], w[Components[k]])],
         aggregate |-> aggregate,
         overall |-> overall,
         passed |-> engine_passed(overall, validation_spec),
         verdict |-> determine_verdict(overall, p),
         cross |-> determine_verdict(aggregate.total_score, p)]

InitScoring(W, P) ==
    /\ weights \in {WeightsOf(w) : w \in W}
    /\ passing_score \in {RInt(p) : p \in P}
    /\ raws = [c \in {"imports", "structure", "behavior"} |-> R0]
    /\ totals = Score(raws, weights, passing_score)
    /\ before = None

\* One component is validated again and everything is scored again.
Rescore(c, v) ==
    /\ raws[c] # v
    /\ raws' = [raws EXCEPT ![c] = v]
    /\ totals' = Score(raws', weights, passing_score)
    /\ before' = Some([raws |-> raws, total |-> totals.aggregate.total_score,
                       overall |-> totals.overall])
    /\ UNCHANGED << weights, passing_score, pipeline, units, rendering, comparison,
                    records, counting >>

(* -------------------------- tiers on their own ------------------------ *)

\* What ParserService.parse_code makes of a sample, for a Django problem
\* (python) and for a React problem (javascript, node present or missing).
ParsedSamples ==
    { [code |-> c, framework |-> "django", parsed_code |-> parse_python(c)] :
        c \in UnitSamples }
    \cup
    { [code |-> c, framework |-> "react",
       parsed_code |-> parse_javascript_enhanced(c, node_result_of(c, o))[1]] :
        c \in UnitSamples, o \in {"exit0", "missing"} }

\* Successfully parsed samples with the validation spec of a problem.
Units ==
    { Merge(ps, [validation_spec |-> Merge(v, [framework |-> ps.framework])]) :
        ps \in {x \in ParsedSamples : x.parsed_code.success}, v \in UnitSpecs }

InitUnits(U) ==
    /\ unit \in U
    /\ unit_results = [v \in {Validators[1], Validators[2]} |-> None]
    /\ unit_checks = [v \in {Validators[1], Validators[2]} |-> None]

\* validator.validate(parsed_code, validation_spec, code) of one tier, with
\* the counters its structure validation ends with.
TierValidate(v) ==
    /\ unit # None
    /\ unit_results[v] = None
    /\ LET spec == unit.validation_spec
           parsed == WithSemantics(unit.parsed_code,
                                   analyze(create_analyzer(unit.framework).analyzer, unit.code),
                                   unit.framework)
           results == IF v = "BeginnerValidator"
                      THEN beginner_validate(unit.parsed_code, spec, unit.code)
                      ELSE intermediate_validate(unit.parsed_code, spec, unit.code)
           checks == IF v = "BeginnerValidator"
                     THEN beginner_structure_checks(parsed, spec.required_structure)
                     ELSE intermediate_structure_checks(parsed, spec.required_structure)
       IN  /\ unit' = [unit EXCEPT !.validation_spec = spec_after_validate(v, spec)]
           /\ unit_results' = [unit_results EXCEPT ![v] = Some(results)]
           /\ unit_checks' = [unit_checks EXCEPT
                                ![v] = Some([checks_passed |-> checks.p,
                                             total_checks |-> checks.t])]
    /\ UNCHANGED << pipeline, scoring, rendering, comparison, records, counting >>

(* ------------------------ feedback on its own ------------------------- *)

FailedStructure(details) == [passed |-> FALSE, score |-> R0, details |-> details]

\* Structure results: the two sentinels of _is_old_format_error as first
\* detail, a sentinel that is not the first detail, what the tiers return
\* without checks, a passing result, and none.
StructureSamples ==
    { FailedStructure(<< "PROBLEM DEFINITION ERROR: class_name is not supported" >>),
      FailedStructure(<< "This problem uses an outdated validation format",
                         "Expected format: classes: [name, methods]",
                         CrossMark \o " Class 'Book' not found" >>),
      FailedStructure(<< CrossMark \o " Class 'Book' not found",
                         "PROBLEM DEFINITION ERROR" >>),
      FailedStructure(<< WarnEmoji \o " No structure validation performed - check validation spec format" >>),
      [passed |-> TRUE, score |-> R100, details |-> << CheckMark \o " Class 'Book' found" >>],
      <<>> }

ComponentSamples ==
    { [passed |-> TRUE, score |-> R100, details |-> << CheckMark \o " found" >>],
      [passed |-> FALSE, score |-> R0, details |-> << CrossMark \o " missing" >>] }

SemanticSamples ==
    { <<>>, [patterns_checked |-> << "hook_call" >>, details |-> << CheckMark \o " useState" >>] }

TotalSamples == { RInt(40), R100 }

\* What generate_feedback is called with when parsing succeeded.
FeedbackInputs ==
    { [parse_success |-> TRUE, imports |-> i, structure |-> st, behavior |-> b,
       semantic |-> sem, verdict |-> vd, total_score |-> ts,
       difficulty |-> "beginner", framework |-> "django"] :
        i \in ComponentSamples, st \in StructureSamples, b \in ComponentSamples,
        sem \in SemanticSamples, vd \in {"accepted", "partially_passed", "failed"},
        ts \in TotalSamples }

InitRendering(F) ==
    /\ feedback_for \in F
    /\ feedback = None

\* FeedbackGenerator.generate_feedback(validation_results)
GenerateFeedback ==
    /\ feedback_for # None
    /\ feedback = None
    /\ feedback' = Some(generate_feedback(feedback_for))
    /\ UNCHANGED << feedback_for, pipeline, scoring, units, comparison, records, counting >>

(* ---------------------- two submissions compared ---------------------- *)

\* What parse_python returns for modules that declare, or not, a class Book
\* (with or without its base class and methods) and a function get_books.
BookClasses ==
    { <<>> } \cup
    { << [name |-> "Book", bases |-> b,
          methods |-> [k \in 1..Len(m) |-> [name |-> m[k], args |-> << "self" >>]],
          fields |-> <<>>] >> :
        b \in { <<>>, << "models.Model" >> },
        m \in { <<>>, << "__str__" >>, << "save" >>, << "__str__", "save" >> } }

ViewFunctions == { <<>>, << [name |-> "get_books", args |-> << "request" >>] >> }

ParseResults ==
    { [success |-> TRUE, error |-> None, language |-> "python",
       imports |-> <<>>, classes |-> c, functions |-> f] :
        c \in BookClasses, f \in ViewFunctions }

\* required_structure of a problem about the Book model, in full and with
\* the class named by a plain string.
StructureSpecs ==
    { [classes |-> << [name |-> "Book", parent_class |-> "models.Model",
                       methods |-> << "__str__", "save" >>] >>,
       functions |-> << [name |-> "get_books"] >>],
      [classes |-> << [str |-> "Book"] >>,
       functions |-> << [name |-> "get_books"] >>] }

\* every class, base class, method and function of parse result a is in b
Provides(b, a) ==
    /\ \A i \in 1..Len(a.classes) :
          \E j \in 1..Len(b.classes) :
             /\ b.classes[j].name = a.classes[i].name
             /\ \A k \in 1..Len(a.classes[i].bases) :
                    InSeq(a.classes[i].bases[k], b.classes[j].bases)
             /\ \A k \in 1..Len(a.classes[i].methods) :
                    InSeq(a.classes[i].methods[k].name, Names(b.classes[j].methods))
    /\ \A i \in 1..Len(a.functions) :
          InSeq(a.functions[i].name, Names(b.functions))

Pairs ==
    { [lesser |-> ab[1], greater |-> ab[2], required_structure |-> r] :
        ab \in { x \in ParseResults \X ParseResults : Provides(x[2], x[1]) },
        r \in StructureSpecs }

InitComparison(P) ==
    /\ pair \in P
    /\ pair_results = [side \in {"lesser", "greater"} |-> None]

\* BeginnerValidator._validate_structure_enhanced(parsed_code, required_structure)
\* on one of the two submissions
ValidateStructure(side) ==
    /\ pair # None
    /\ pair_results[side] = None
    /\ pair_results' = [pair_results EXCEPT ![side] =
            Some(beginner_validate_structure_enhanced(pair[side], pair.required_structure))]
    /\ UNCHANGED << pair, pipeline, scoring, units, rendering, records, counting >>

(* ------------------------ progress and profile ------------------------ *)

MaxAttempts == 3

\* Scores validate_submission returns; the verdict follows from the score
\* and the problem's passing_score.
ScoreSamples == { 0, 40, 60, 85, 100 }

PassingScore == 80

NewProfile ==
    [total_submissions |-> 0, total_problems_attempted |-> 0,
     total_problems_solved |-> 0, total_score |-> 0,
     difficulty_solved |-> 0, framework_stats |-> 0]

InitRecords(on) ==
    /\ progress = None
    /\ profile = IF on THEN NewProfile ELSE None
    /\ history = <<>>
    /\ step = IF on THEN "idle" ELSE "off"

\* SubmissionViewSet.create up to submission.save(): the attempt number,
\* the pending submission, and the verdict and score of its validation.
CreateSubmission(score) ==
    /\ step = "idle"
    /\ Len(history) < MaxAttempts
    /\ history' = Append(history,
            [submission_id |-> Len(history) + 1,
             attempt_number |-> Len(history) + 1,
             verdict |-> determine_verdict(RInt(score), RInt(PassingScore)),
             score |-> score])
    /\ step' = "saved"
    /\ UNCHANGED << progress, profile, pipeline, scoring, units, rendering, comparison,
                    counting >>

(* UserProgressService.update_progress *)
update_progress(row, submission) ==
    LET created == row = None
        got == IF created
               THEN [is_attempted |-> TRUE, is_solved |-> FALSE, total_attempts |-> 1,
                     best_score |-> submission.score,
                     best_submission |-> submission.submission_id]
               ELSE row[1]
        attempted == IF created THEN got
                     ELSE [got EXCEPT
                             !.total_attempts = @ + 1,
                             !.best_score = IF submission.score > @
                                            THEN submission.score ELSE @,
                             !.best_submission = IF submission.score > got.best_score
                                                 THEN submission.submission_id ELSE @]
    IN  IF submission.verdict = "accepted" /\ ~ attempted.is_solved
        THEN [attempted EXCEPT !.is_solved = TRUE]
        ELSE attempted

UpdateProgress ==
    /\ step = "saved"
    /\ progress' = Some(update_progress(progress, history[Len(history)]))
    /\ step' = "progressed"
    /\ UNCHANGED << profile, history, pipeline, scoring, units, rendering, comparison,
                    counting >>

(* UserProfileService.update_profile_on_submission *)
update_profile_on_submission(prof, row, submission) ==
    LET counted == [prof EXCEPT
                      !.total_submissions = @ + 1,
                      !.total_problems_attempted =
                          IF submission.attempt_number = 1 THEN @ + 1 ELSE @]
        solved_before == /\ row # None
                         /\ row[1].is_solved
                         /\ row[1].best_submission # submission.submission_id
    IN  IF submission.verdict = "accepted" /\ ~ solved_before
        THEN [counted EXCEPT
                !.total_problems_solved = @ + 1,
                !.total_score = @ + submission.score,
                !.difficulty_solved = @ + 1,
                !.framework_stats = @ + 1]
        ELSE counted

UpdateProfile ==
    /\ step = "progressed"
    /\ profile' = update_profile_on_submission(profile, progress, history[Len(history)])
    /\ step' = "idle"
    /\ UNCHANGED << progress, history, pipeline, scoring, units, rendering, comparison,
                    counting >>

(* --------------------------- problem statistics ----------------------- *)

MaxRequests == 3

\* verdicts validate_submission returns for code that parses
RequestVerdicts == {"accepted", "partially_passed", "failed"}

NewStats == [total_submissions |-> 0, accepted_submissions |-> 0, acceptance_rate |-> R0]

InitCounting(on) ==
    /\ stats = IF on THEN NewStats ELSE None
    /\ requests = IF on
                  THEN [r \in 1..MaxRequests |->
                            [at |-> "waiting", verdict |-> None, problem |-> None]]
                  ELSE None

\* SubmissionViewSet.create of one request, up to submission.save(): the
\* serializer loads the Problem row into an instance of its own, which the
\* submission keeps as submission.problem, and validation gives the verdict.
Receive(r, verdict) ==
    /\ requests # None
    /\ requests[r].at = "waiting"
    /\ requests' = [requests EXCEPT ![r] =
            [at |-> "validated", verdict |-> Some(verdict), problem |-> Some(stats)]]
    /\ UNCHANGED << stats, pipeline, scoring, units, rendering, comparison, records >>

(* ProblemStatsService.update_problem_stats: the counters of the           *)
(* submission's Problem instance, as problem.save(update_fields) writes     *)
(* them.                                                                    *)
update_problem_stats(prob, verdict) ==
    LET total_submissions == prob.total_submissions + 1
        accepted_submissions == IF verdict = "accepted"
                                THEN prob.accepted_submissions + 1
                                ELSE prob.accepted_submissions
    IN  [total_submissions |-> total_submissions,
         accepted_submissions |-> accepted_submissions,
         acceptance_rate |-> IF total_submissions > 0
                             THEN RMul(Rat(accepted_submissions, total_submissions), R100)
                             ELSE prob.acceptance_rate]

\* SubmissionViewSet.create of one request: ProblemStatsService.update_problem_stats(submission)
UpdateProblemStats(r) ==
    /\ requests # None
    /\ requests[r].at = "validated"
    /\ LET saved == update_problem_stats(requests[r].problem[1], requests[r].verdict[1])
       IN  /\ stats' = saved
           /\ requests' = [requests EXCEPT ![r].at = "done", ![r].problem = Some(saved)]
    /\ UNCHANGED << pipeline, scoring, units, rendering, comparison, records >>

(* --------------------------- specifications --------------------------- *)

Init ==
    /\ InitPipeline
    /\ InitScoring({ << 20, 35, 45 >> }, { 80 })
    /\ InitUnits({ None })
    /\ InitRendering({ None })
    /\ InitComparison({ None })
    /\ InitRecords(FALSE)
    /\ InitCounting(FALSE)

Next ==
    \/ \E p \in Problems, c \in CodeSamples : Submit(p, c)
    \/ ParsePython
    \/ JsCreateTemp
    \/ JsCreateTempFails
    \/ \E o \in NodeOutcomes, u \in BOOLEAN : JsRunNode(o, u)
    \/ JsFinish
    \/ ReturnSyntaxError
    \/ RunEngine
    \/ ReturnValidationError
    \/ ReturnResults

\* SubmissionService.validate_submission, one submission after another.
Spec == Init /\ [][Next]_vars

InitScore ==
    /\ InitPipeline
    /\ InitScoring(WeightSamples, PassingSamples)
    /\ InitUnits({ None })
    /\ InitRendering({ None })
    /\ InitComparison({ None })
    /\ InitRecords(FALSE)
    /\ InitCounting(FALSE)

NextScore == \E c \in {"imports", "structure", "behavior"}, v \in RawSamples : Rescore(c, v)

\* The scorers, the aggregator and the engine's overall score on their own.
SpecScore == InitScore /\ [][NextScore]_vars

InitTier ==
    /\ InitPipeline
    /\ InitScoring({ << 20, 35, 45 >> }, { 80 })
    /\ InitUnits(Units)
    /\ InitRendering({ None })
    /\ InitComparison({ None })
    /\ InitRecords(FALSE)
    /\ InitCounting(FALSE)

NextTier == \E i \in 1..Len(Validators) : TierValidate(Validators[i])

\* Both tiers' validate on the same parse result and requirements.
SpecTier == InitTier /\ [][NextTier]_vars

InitFeedback ==
    /\ InitPipeline
    /\ InitScoring({ << 20, 35, 45 >> }, { 80 })
    /\ InitUnits({ None })
    /\ InitRendering(FeedbackInputs)
    /\ InitComparison({ None })
    /\ InitRecords(FALSE)
    /\ InitCounting(FALSE)

NextFeedback == GenerateFeedback

\* FeedbackGenerator.generate_feedback on its own.
SpecFeedback == InitFeedback /\ [][NextFeedback]_vars

InitCompare ==
    /\ InitPipeline
    /\ InitScoring({ << 20, 35, 45 >> }, { 80 })
    /\ InitUnits({ None })
    /\ InitRendering({ None })
    /\ InitComparison(Pairs)
    /\ InitRecords(FALSE)
    /\ InitCounting(FALSE)

NextCompare == \E side \in {"lesser", "greater"} : ValidateStructure(side)

\* The beginner tier's structure validation of two submissions to one problem.
SpecCompare == InitCompare /\ [][NextCompare]_vars

InitProgress ==
    /\ InitPipeline
    /\ InitScoring({ << 20, 35, 45 >> }, { 80 })
    /\ InitUnits({ None })
    /\ InitRendering({ None })
    /\ InitComparison({ None })
    /\ InitRecords(TRUE)
    /\ InitCounting(FALSE)

NextProgress ==
    \/ \E score \in ScoreSamples : CreateSubmission(score)
    \/ UpdateProgress
    \/ UpdateProfile

\* One user's submissions to one problem, one after another, and what the
\* view's services record of them.
SpecProgress == InitProgress /\ [][NextProgress]_vars

InitStats ==
    /\ InitPipeline
    /\ InitScoring({ << 20, 35, 45 >> }, { 80 })
    /\ InitUnits({ None })
    /\ InitRendering({ None })
    /\ InitComparison({ None })
    /\ InitRecords(FALSE)
    /\ InitCounting(TRUE)

NextStats ==
    \/ \E r \in 1..MaxRequests, verdict \in RequestVerdicts : Receive(r, verdict)
    \/ \E r \in 1..MaxRequests : UpdateProblemStats(r)

\* Submissions to one problem handled by concurrent requests.
SpecStats == InitStats /\ [][NextStats]_vars


(* ------------------------------- claims ------------------------------- *)

returned == pc \in {"js_native_done", "parsed", "validated", "done"}

\* C1: once _parse_javascript_with_node has returned, the temporary file it
\* created no longer exists, whichever way the call ended.
C1_TempFileRemoved ==
    (returned /\ temp_path # None) => temp_path[1] \notin tempFiles

graded == tiered_results # None /\ "error" \notin DOMAIN tiered_results[1]

\* C2: with a framework that is none of the known ones, both tiers get an
\* analyzer and the engine returns imports, structure and behavior results,
\* not an error result.
C2_UnknownFrameworkProceeds ==
    ( /\ tiered_results # None
      /\ problem.framework \notin {"django", "react", "express", "angular", "nodejs"}
      /\ problem.difficulty \in {"beginner", "easy", "intermediate", "medium"} )
    => /\ "error" \notin DOMAIN tiered_results[1]
       /\ {"imports", "structure", "behavior"} \subseteq DOMAIN tiered_results[1]

\* C3: in both tiers a structured pattern of a type no validator knows is
\* counted as unmatched whatever the code contains, and the behavior result
\* has one detail per pattern.
C3_UnknownTypeFailsClosed ==
    graded =>
        LET patterns == problem.validation_spec.behavior_patterns
            details == tiered_results[1].behavior.details
            unknown(pat) ==
                /\ "type" \in DOMAIN pat
                /\ pat.type \notin DjangoPatternTypes \cup ReactPatternTypes
                                   \cup GenericPatternTypes
        IN  /\ Len(details) = Len(patterns)
            /\ \A i \in 1..Len(patterns) :
                    unknown(patterns[i]) => StartsWith(details[i], CrossMark)
            /\ (\E i \in 1..Len(patterns) : unknown(patterns[i]))
                    => ~ tiered_results[1].behavior.passed

WeightSum == RAdd(RAdd(weights.imports, weights.structure), weights.behavior)

Contribution(c) == RDiv(RMul(raws[c], weights[c]), R100)

ContributionSum ==
    RAdd(RAdd(Contribution("imports"), Contribution("structure")), Contribution("behavior"))

\* C4: in the engine's overall score the weights are independent
\* percentages: with a weight sum W below 100 the score never exceeds W and
\* is W when every component scores 100, and with a weight sum above 100 it
\* is the sum of the weighted contributions clamped at 100.
C4_IndependentPercentages ==
    /\ RLt(WeightSum, R100) =>
            /\ RLe(totals.overall, WeightSum)
            /\ (\A c \in DOMAIN raws : raws[c] = R100) => totals.overall = WeightSum
    /\ RLt(R100, WeightSum) => totals.overall = RMin(R100, ContributionSum)

WeightedSum ==
    RAdd(RAdd(totals.component_scores[1].weighted_score,
              totals.component_scores[2].weighted_score),
         totals.component_scores[3].weighted_score)

\* C5: the total score aggregate_scores returns is the sum of the
\* components' weighted scores, or 100 when that sum is larger, rounded to
\* two decimals.
C5_AggregateTotal ==
    totals.aggregate.total_score = Round2(RMin(R100, WeightedSum))

\* a state of C5 where the sum of the weighted scores exceeds 100
C5_Clamped ==
    /\ before # None
    /\ RLt(R100, WeightedSum)
    /\ totals.aggregate.total_score = R100

\* C6: with the weights fixed, raising component raw scores never lowers
\* the aggregator's total score nor the engine's overall score.
C6_Monotonic ==
    [][ ( /\ weights' = weights
          /\ \A c \in DOMAIN raws : RLe(raws[c], raws'[c]) )
        => /\ RLe(totals.aggregate.total_score, totals'.aggregate.total_score)
           /\ RLe(totals.overall, totals'.overall) ]_vars

\* a state of C6 reached by raising one raw score, both totals having risen
C6_Raised ==
    /\ before # None
    /\ \A c \in DOMAIN raws : RLe(before[1].raws[c], raws[c])
    /\ RLt(before[1].total, totals.aggregate.total_score)
    /\ RLt(before[1].overall, totals.overall)

Ladder(total_score, passing) ==
    CASE RGe(total_score, passing) -> "accepted"
      [] /\ RLe(RMul(Rat(6, 10), passing), total_score)
         /\ RLt(total_score, passing) -> "partially_passed"
      [] OTHER -> "failed"

\* C7: the verdict is accepted iff the total reaches the passing score,
\* partially_passed iff it reaches 0.6 of it but not all of it, failed
\* otherwise; the aggregator and the service give the same pair the same
\* verdict; and passed holds exactly when the verdict is accepted.
C7_Verdict ==
    /\ totals.aggregate.verdict = Ladder(totals.aggregate.total_score, passing_score)
    /\ totals.verdict = Ladder(totals.overall, passing_score)
    /\ totals.cross = totals.aggregate.verdict
    /\ totals.aggregate.passed <=> totals.aggregate.verdict = "accepted"
    /\ totals.passed <=> totals.verdict = "accepted"

\* a state of C7 where both totals are exactly the passing score
C7_AtThreshold ==
    /\ before # None
    /\ totals.overall = passing_score
    /\ totals.verdict = "accepted"
    /\ totals.aggregate.total_score = passing_score
    /\ totals.cross = "accepted"

parse_failed == pc = "done" /\ ~ Get(parsed_code, "success", FALSE)

\* C8: when the parser returned success = false, validate_submission
\* returns verdict syntax_error, score 0, parse_success false, no validation
\* results, the parser's line and offset, and exactly one feedback item, of
\* type error; the engine was not called.
C8_ReducedOutcome ==
    parse_failed =>
        LET o == outcome[1] IN
        /\ o.verdict = "syntax_error"
        /\ o.score = R0
        /\ o.parse_success = FALSE
        /\ DOMAIN o.validation_results = {}
        /\ o.error_line = Get(parsed_code, "line", None)
        /\ o.error_offset = Get(parsed_code, "offset", None)
        /\ Len(o.feedback) = 1
        /\ o.feedback[1].type = "error"
        /\ tiered_results = None

\* a state of C8: a Python syntax error at line 3, column 25
C8_SyntaxErrorReturned ==
    /\ parse_failed
    /\ outcome[1].error_line = Some(3)
    /\ outcome[1].error_offset = Some(25)
    /\ Len(outcome[1].feedback) = 1

\* the stage that parsed the source reported a syntax error
syntax_error_reported ==
    \/ language = "python" /\ code.py.status = "syntax_error"
    \/ /\ node_outcome = Some("exit0")
       /\ ~ node_result[1].success
       /\ node_result[1].error # None

\* C9: when Python's ast raised SyntaxError, or the native JS parser exited
\* cleanly with success = false and an error message, validate_submission
\* returns verdict syntax_error and no graded verdict.
C9_MalformedIsSyntaxError ==
    (pc = "done" /\ syntax_error_reported) => outcome[1].verdict = "syntax_error"

\* C10: a successful native stage is returned with parser_used = esprima and
\* the regex stage is not run; after any other native outcome the regex stage
\* is run and its result is returned with parser_used = regex, so the call
\* fails only when the regex stage itself fails.
C10_Fallback ==
    (pc \in {"parsed", "validated", "done"} /\ node_outcome # None) =>
        IF node_outcome = Some("exit0") /\ code.js.esprima = "ok"
        THEN /\ stages = << "native" >>
             /\ parsed_code.parser_used = "esprima"
             /\ parsed_code.success
             /\ parsed_code.functions = code.js.native.functions
        ELSE /\ stages = << "native", "regex" >>
             /\ parsed_code.parser_used = "regex"
             /\ parsed_code.success = ~ code.js.regex_raises
             /\ parsed_code.success => parsed_code.functions = code.js.regex.functions

\* a state of C10: node timed out and the regex stage parsed the source
C10_FellBack ==
    /\ pc = "parsed"
    /\ node_outcome = Some("timeout")
    /\ stages = << "native", "regex" >>
    /\ parsed_code.parser_used = "regex"
    /\ parsed_code.success
    /\ parsed_code.functions # <<>>

Verdicts == {"accepted", "partially_passed", "failed", "syntax_error"}

\* C11: whichever way validate_submission returns (parse failure, no
\* matching tier, exception inside a tier, grading), the outcome carries a
\* verdict and a feedback list with at least one item.
C11_VerdictAndFeedback ==
    pc = "done" =>
        /\ outcome # None
        /\ {"verdict", "feedback"} \subseteq DOMAIN outcome[1]
        /\ outcome[1].verdict \in Verdicts
        /\ Len(outcome[1].feedback) >= 1

\* a state of C11: a tier raised and validate_submission returned
C11_TierRaised ==
    /\ pc = "done"
    /\ "validation_error" \in DOMAIN outcome[1]
    /\ StartsWith(outcome[1].validation_error, "Validation error: ")
    /\ Len(outcome[1].feedback) = 1

HandledDifficulties == {"beginner", "easy", "intermediate", "medium"}

\* C12: the engine uses the first validator, in registration order, whose
\* can_handle is true; with a difficulty no validator handles it evaluates
\* no component and returns an error result, and validate_submission then
\* returns score 0 with validation_error, empty validation_results and one
\* feedback item of type error, which no graded outcome carries.
C12_TierSelection ==
    tiered_results # None =>
        LET d == problem.difficulty
            f == problem.framework
            t == tiered_results[1]
            able == {i \in 1..Len(Validators) : can_handle(Validators[i], d, f)}
        IN  /\ (able # {} /\ graded) =>
                    t.validator_used =
                        Validators[CHOOSE i \in able : \A j \in able : i <= j]
            /\ (able = {}) <=> (d \notin HandledDifficulties)
            /\ (able = {}) =>
                    /\ DOMAIN t = {"error", "overall_score", "passed"}
                    /\ pc = "done" =>
                            /\ outcome[1].validation_error = t.error
                            /\ outcome[1].validation_results = <<>>
                            /\ outcome[1].score = R0
                            /\ Len(outcome[1].feedback) = 1
                            /\ outcome[1].feedback[1].type = "error"
            /\ (pc = "done" /\ graded) => "validation_error" \notin DOMAIN outcome[1]

\* a state of C12: a problem of difficulty pro came back as an engine error
C12_NoValidator ==
    /\ pc = "done"
    /\ problem.difficulty = "pro"
    /\ "validation_error" \in DOMAIN outcome[1]
    /\ StartsWith(outcome[1].validation_error, "No validator found for difficulty: pro")
    /\ outcome[1].verdict = "failed"

\* required_structure in the old shape: neither `classes` nor `functions`
legacy_shape(required_structure) ==
    /\ "classes" \notin DOMAIN required_structure
    /\ "functions" \notin DOMAIN required_structure

\* C13: a graded submission to a problem whose required_structure has the
\* old shape gets the configuration-error block as its feedback, and no
\* verdict item.
C13_LegacySpecConfigurationError ==
    ( /\ pc = "done"
      /\ graded
      /\ legacy_shape(problem.validation_spec.required_structure) )
    => /\ outcome[1].feedback[1] = Plain("error", "PROBLEM CONFIGURATION ERROR")
       /\ \A i \in 1..Len(outcome[1].feedback) :
              outcome[1].feedback[i] # verdict_item(outcome[1].verdict)

\* the first structure detail carries one of the configuration-error texts
sentinel_first(structure_res) ==
    LET details == Get(structure_res, "details", <<>>)
    IN  /\ details # <<>>
        /\ \/ Contains(details[1], "PROBLEM DEFINITION ERROR")
           \/ Contains(details[1], "outdated validation format")

\* the messages of the configuration-error block for these structure details
ConfigurationMessages(structure_res) ==
    { "PROBLEM CONFIGURATION ERROR",
      WarnEmoji \o " This problem uses an outdated validation format and cannot be graded.",
      "What to do: Contact the course administrator to update this problem.",
      "For admins: Update the validation_spec" }
    \cup { InfoEmoji \o " " \o structure_res.details[k] :
             k \in {j \in 1..Len(structure_res.details) :
                        Contains(structure_res.details[j], "Expected format")} }

\* C14: when parsing succeeded and the first structure detail carries a
\* configuration-error text, generate_feedback returns configuration-error
\* items only: no verdict item, no component header or detail, no semantic
\* block and no hint, whatever the verdict and the total score are.
C14_ConfigurationErrorOnly ==
    ( /\ feedback # None
      /\ feedback_for.parse_success
      /\ sentinel_first(feedback_for.structure) )
    => LET items == feedback[1]
           message(i) == items[i].message
       IN  /\ items[1] = Plain("error", "PROBLEM CONFIGURATION ERROR")
           /\ \A i \in 1..Len(items) :
                /\ message(i) \in ConfigurationMessages(feedback_for.structure)
                /\ message(i) \notin {verdict_item(v).message : v \in Verdicts}
                /\ message(i) \notin {c \o ": Score" : c \in {"Imports", "Structure", "Behavior"}}
                /\ message(i) # "Advanced Pattern Analysis:"
                /\ message(i) \notin {HintImports, HintNames, HintMethods, HintBehavior}
                /\ \A c \in {"imports", "behavior"} :
                      \A k \in 1..Len(feedback_for[c].details) :
                         message(i) # feedback_for[c].details[k]

\* a state of C14: the second sentinel, on an accepted submission with a low
\* total and a semantic result, gave the block with its `Expected format` line
C14_BlockReturned ==
    /\ feedback # None
    /\ sentinel_first(feedback_for.structure)
    /\ Contains(feedback_for.structure.details[1], "outdated validation format")
    /\ feedback_for.verdict = "accepted"
    /\ feedback_for.total_score = RInt(40)
    /\ feedback_for.semantic # <<>>
    /\ Len(feedback[1]) = 5

Validated(v) == unit # None /\ unit_results[v] # None

\* C15: in both tiers a structure validation that made no check returns
\* score 0, passed false and one detail.
C15_NoChecksScoreZero ==
    \A v \in DOMAIN unit_results :
        (Validated(v) /\ unit_checks[v][1].total_checks = 0) =>
            LET structure == unit_results[v][1].structure
            IN  /\ structure.score = R0
                /\ ~ structure.passed
                /\ Len(structure.details) = 1

\* a state of C15: both tiers validated the test script's spec
C15_LegacyUnchecked ==
    /\ \A v \in DOMAIN unit_results :
          /\ Validated(v)
          /\ unit_checks[v][1].total_checks = 0
          /\ unit_results[v][1].structure.score = R0
    /\ "class_name" \in DOMAIN unit.validation_spec.required_structure

\* The checks a class or function spec declares: its existence and its
\* sub-requirements, one per required method.
DeclaredChecks(item) ==
    IF IsStr(item) THEN 1
    ELSE 1 + (IF "parent_class" \in DOMAIN item THEN 1 ELSE 0)
           + Len(Get(item, "methods", <<>>))
           + (IF "params" \in DOMAIN item THEN 1 ELSE 0)
           + (IF Get(item, "type", "") = "functional_component" THEN 1 ELSE 0)
           + (IF Get(item, "has_prop_types", FALSE) THEN 1 ELSE 0)
           + (IF Get(item, "has_export", FALSE) THEN 1 ELSE 0)

\* C16: the beginner tier counts, for every required class and function,
\* the existence check and every sub-requirement the spec declares, whether
\* or not the class or function was found, and the structure score is
\* checks_passed / total_checks * 100.
C16_IndependentChecks ==
    Validated("BeginnerValidator") =>
        LET required_structure == unit.validation_spec.required_structure
            items == Get(required_structure, "classes", <<>>)
                        \o Get(required_structure, "functions", <<>>)
            checks == unit_checks["BeginnerValidator"][1]
            structure == unit_results["BeginnerValidator"][1].structure
        IN  /\ checks.total_checks = SumOver(items, DeclaredChecks)
            /\ checks.total_checks > 0 =>
                    structure.score = RMul(Rat(checks.checks_passed, checks.total_checks), R100)

\* C17: on the same parse result and required_structure the two tiers count
\* the same checks and the same passed checks, and return the same structure
\* score and passed flag.
C17_SameStructuralChecks ==
    (Validated("BeginnerValidator") /\ Validated("EnhancedIntermediateValidator")) =>
        LET b == unit_results["BeginnerValidator"][1].structure
            i == unit_results["EnhancedIntermediateValidator"][1].structure
        IN  /\ unit_checks["BeginnerValidator"] = unit_checks["EnhancedIntermediateValidator"]
            /\ b.score = i.score
            /\ b.passed = i.passed

\* required imports of the unit that no found import matches
MissingCount ==
    LET required == unit.validation_spec.required_imports
        found_imports == extract_all_imports(unit.parsed_code)
    IN  Cardinality({k \in 1..Len(required) :
                        ~ is_import_match_enhanced(required[k], found_imports)})

\* C18: with no required import the import result is score 100 and passed;
\* otherwise the score is (required - missing) / required * 100, passed
\* holds iff nothing is missing, and the score is 0 when all are missing.
C18_ImportScore ==
    \A v \in DOMAIN unit_results :
        Validated(v) =>
            LET required == unit.validation_spec.required_imports
                imports == unit_results[v][1].imports
            IN  IF required = <<>>
                THEN imports.score = R100 /\ imports.passed
                ELSE /\ imports.score =
                            RMul(Rat(Len(required) - MissingCount, Len(required)), R100)
                     /\ imports.passed <=> MissingCount = 0
                     /\ MissingCount = Len(required) => imports.score = R0

\* a state of C18: one of three required imports is missing
C18_OneOfThreeMissing ==
    /\ Validated("BeginnerValidator")
    /\ Len(unit.validation_spec.required_imports) = 3
    /\ MissingCount = 1
    /\ unit_results["BeginnerValidator"][1].imports.score = Rat(200, 3)
    /\ ~ unit_results["BeginnerValidator"][1].imports.passed

\* The candidate strings of one found import: its module path, module.name,
\* and the imported and local names it binds.
ClaimedCandidates(imp) ==
    { Get(imp, "module", "") }
    \cup (IF "name" \in DOMAIN imp
          THEN { imp.name, Get(imp, "module", "") \o "." \o imp.name } ELSE {})
    \cup UNION { { imp.specifiers[k].local, imp.specifiers[k].imported } :
                   k \in 1..Len(Get(imp, "specifiers", <<>>)) }

ClaimedMatch(required, candidates) ==
    IF StartsWith(required, ".")
    THEN LET path == LStrip(required, ".")
             parts == Split(path, ".")
         IN  \E c \in candidates :
                \E var \in { path, Replace(path, ".", "_"), parts[Len(parts)] } :
                    Contains(c, var) \/ EndsWith(c, var)
    ELSE LET parts == Split(required, ".")
         IN  \E c \in candidates :
                \/ Contains(c, required)
                \/ Contains(required, c)
                \/ \A k \in 1..Len(parts) : Contains(c, parts[k])

\* C19: a required import is reported missing iff no candidate string of
\* the found imports (module path, module.name, imported and local names of
\* every import form) matches it by the rules for absolute and for relative
\* imports.
C19_ImportMatching ==
    \A v \in DOMAIN unit_results :
        Validated(v) =>
            LET required == unit.validation_spec.required_imports
                found == unit.parsed_code.imports
                candidates == UNION { ClaimedCandidates(found[k]) : k \in 1..Len(found) }
                detail == unit_results[v][1].imports.details[1]
                reported_missing(r) == /\ StartsWith(detail, "Missing imports: ")
                                       /\ Contains(detail, "'" \o r \o "'")
            IN  \A k \in 1..Len(required) :
                    reported_missing(required[k]) <=> ~ ClaimedMatch(required[k], candidates)

\* C20: in both tiers the behavior result of a non-empty pattern list has
\* one detail per pattern, score matched / total * 100 and passed iff all
\* matched; an empty list gives score 100 and passed.
C20_BehaviorScore ==
    \A v \in DOMAIN unit_results :
        Validated(v) =>
            LET patterns == unit.validation_spec.behavior_patterns
                behavior == unit_results[v][1].behavior
                total == Len(patterns)
                matched == Cardinality({k \in 1..Len(behavior.details) :
                                           StartsWith(behavior.details[k], CheckMark)})
            IN  IF patterns = <<>>
                THEN behavior.score = R100 /\ behavior.passed
                ELSE /\ Len(behavior.details) = total
                     /\ \A k \in 1..total :
                            \/ StartsWith(behavior.details[k], CheckMark)
                            \/ StartsWith(behavior.details[k], CrossMark)
                     /\ behavior.score = RMul(Rat(matched, total), R100)
                     /\ behavior.passed <=> matched = total

\* a state of C20: both tiers evaluated three patterns and matched some
C20_PartlyMatched ==
    /\ \A v \in DOMAIN unit_results :
          /\ Validated(v)
          /\ Len(unit_results[v][1].behavior.details) = 3
          /\ ~ unit_results[v][1].behavior.passed
    /\ unit_results["BeginnerValidator"][1].behavior.score = Rat(200, 3)
    /\ unit_results["EnhancedIntermediateValidator"][1].behavior.score = Rat(100, 3)

\* C21: the import, structure and behavior result either tier returns has
\* its score within [0, 100].
C21_ScoreWithinRange ==
    \A v \in DOMAIN unit_results :
        Validated(v) =>
            \A c \in {"imports", "structure", "behavior"} :
                /\ RLe(R0, unit_results[v][1][c].score)
                /\ RLe(unit_results[v][1][c].score, R100)

\* a state of C21: both tiers validated, and the beginner tier returned a
\* score strictly between 0 and 100 for each of the three components
C21_AllPartial ==
    /\ \A v \in DOMAIN unit_results : Validated(v)
    /\ \A c \in {"imports", "structure", "behavior"} :
          LET score == unit_results["BeginnerValidator"][1][c].score
          IN  RLt(R0, score) /\ RLt(score, R100)
    /\ unit_results["BeginnerValidator"][1].behavior.score = Rat(200, 3)

\* C22: the call of EnhancedValidationEngine.validate_submission leaves the
\* problem's validation_spec as it was: required_imports, required_structure
\* and every behavior pattern, with its keys and values.
C22_RequirementSpecUnchanged ==
    [][(pc = "parsed" /\ pc' = "validated") =>
            problem'.validation_spec = problem.validation_spec]_vars

\* the hint items of the returned feedback
HintItems ==
    { k \in 1..Len(feedback[1]) : StartsWith(feedback[1][k].message, "Tip:") }

\* the components of the validation results that scored below 50
WeakComponents ==
    { c \in {"imports", "structure", "behavior"} :
        RLt(Get(Get(feedback_for, c, <<>>), "score", R0), RInt(50)) }

\* C23: generate_feedback appends hints only when total_score < 50, and
\* then exactly one hint item for each component that scored below 50.
C23_OneHintPerWeakComponent ==
    (feedback # None /\ ~ is_old_format_error(feedback_for.structure)) =>
        IF RLt(feedback_for.total_score, RInt(50))
        THEN Cardinality(HintItems) = Cardinality(WeakComponents)
        ELSE HintItems = {}

\* The type C24 gives a detail line by the glyph or words it carries.
ClaimedType(detail) ==
    IF Contains(detail, CheckMark) THEN "success"
    ELSE IF \/ Contains(detail, CrossMark)
            \/ Contains(Lower(detail), "missing")
            \/ Contains(Lower(detail), "not found")
    THEN "error"
    ELSE "info"

\* where the header item of a component stands in the graded feedback
HeaderAt(results, c) ==
    CASE c = "imports"   -> 2
      [] c = "structure" -> 3 + Len(results.imports.details)
      [] OTHER           -> 4 + Len(results.imports.details) + Len(results.structure.details)

\* C24: in the feedback of a graded submission every detail line of a
\* component that carries a check-mark has type success, every line that
\* carries a cross or the words missing / not found has type error, indented
\* sub-check lines included, and every other line has type info.
C24_DetailTypes ==
    (pc = "done" /\ tiered_results # None /\ "error" \notin DOMAIN tiered_results[1]) =>
        LET results == outcome[1].validation_results
            items == outcome[1].feedback
        IN  \A c \in {"imports", "structure", "behavior"} :
                \A k \in 1..Len(results[c].details) :
                    items[HeaderAt(results, c) + k].type = ClaimedType(results[c].details[k])

\* C25: the three scorers and ScoreAggregator.calculate_weighted_score give,
\* for the same raw score and the same percentage weight, the same weighted
\* score raw_score / 100 * weight (to two decimals).
C25_ProducersAgree ==
    \A k \in 1..3 :
        LET raw_score == raws[Components[k]]
            weight == weights[Components[k]]
            expected == Round2(RMul(RDiv(raw_score, R100), weight))
        IN  /\ totals.component_scores[k].weighted_score = expected
            /\ totals.contributions[k] = expected

\* The base classes a parsed class has, under whichever field the parser
\* that produced it reports them.
ParsedBases(cls) ==
    { cls.bases[k] : k \in 1..Len(Get(cls, "bases", <<>>)) }
    \cup (IF "superClass" \in DOMAIN cls THEN { cls.superClass } ELSE {})

\* The parameters a parsed function has, likewise.
ParsedParams(fn) ==
    { fn.args[k] : k \in 1..Len(Get(fn, "args", <<>>)) }
    \cup { fn.params[k] : k \in 1..Len(Get(fn, "params", <<>>)) }

\* C26: in the beginner tier a declared parent_class is counted as passed
\* whenever the parsed class has that base, and declared params are counted
\* as passed whenever the parsed function has all of them, whichever parser
\* produced the parse result.
C26_ParsedFieldsRead ==
    Validated("BeginnerValidator") =>
        LET required_structure == unit.validation_spec.required_structure
            class_specs == Get(required_structure, "classes", <<>>)
            func_specs == Get(required_structure, "functions", <<>>)
            details == unit_results["BeginnerValidator"][1].structure.details
        IN  /\ \A i \in 1..Len(class_specs) :
                    LET class_spec == class_specs[i]
                        found == IF IsStr(class_spec) THEN <<>>
                                 ELSE FindByName(unit.parsed_code.classes, class_spec.name)
                    IN  (/\ found # <<>>
                         /\ "parent_class" \in DOMAIN class_spec
                         /\ class_spec.parent_class \in ParsedBases(found[1]))
                        => InSeq("  " \o CheckMark \o " Inherits from '"
                                    \o class_spec.parent_class \o "'", details)
            /\ \A i \in 1..Len(func_specs) :
                    LET func_spec == func_specs[i]
                        found == IF IsStr(func_spec) THEN <<>>
                                 ELSE FindByName(unit.parsed_code.functions, func_spec.name)
                    IN  (/\ found # <<>>
                         /\ "params" \in DOMAIN func_spec
                         /\ \A k \in 1..Len(func_spec.params) :
                                func_spec.params[k] \in ParsedParams(found[1]))
                        => InSeq("  " \o CheckMark \o " Has correct parameters: "
                                    \o ListRepr(func_spec.params), details)

\* C27: for one required_structure, a submission whose parse result holds
\* every class, base class, method and function of another's gets a beginner
\* structure score at least as high.
C27_StructureMonotone ==
    (pair # None /\ pair_results.lesser # None /\ pair_results.greater # None) =>
        RLe(pair_results.lesser[1].score, pair_results.greater[1].score)

\* C28: an empty candidate string satisfies nothing: in both tiers a
\* required import that is not relative is reported missing whenever no
\* non-empty candidate contains it, is contained in it, or contains all of
\* its dot-separated parts.
C28_EmptyCandidateIgnored ==
    \A v \in DOMAIN unit_results :
        Validated(v) =>
            LET required == unit.validation_spec.required_imports
                candidates == SelectSeq(extract_all_imports(unit.parsed_code),
                                        LAMBDA c : c # "")
                detail == unit_results[v][1].imports.details[1]
            IN  \A k \in 1..Len(required) :
                    (/\ ~ StartsWith(required[k], ".")
                     /\ ~ is_import_match_enhanced(required[k], candidates))
                    => (/\ StartsWith(detail, "Missing imports: ")
                        /\ Contains(detail, "'" \o required[k] \o "'"))

\* C29: once the submissions of one user to one problem were processed,
\* total_problems_solved has grown by 1 if one of them was accepted and by 0
\* otherwise, whatever the scores of later accepted submissions.
C29_SolvedOnce ==
    step = "idle" =>
        profile.total_problems_solved =
            IF \E k \in 1..Len(history) : history[k].verdict = "accepted" THEN 1 ELSE 0

\* C30: when all concurrently handled submissions to a problem have been
\* through update_problem_stats, total_submissions is their number and
\* accepted_submissions the number of accepted ones among them.
C30_NoLostUpdate ==
    (requests # None /\ \A r \in DOMAIN requests : requests[r].at = "done") =>
        /\ stats.total_submissions = Cardinality(DOMAIN requests)
        /\ stats.accepted_submissions =
                Cardinality({ r \in DOMAIN requests : requests[r].verdict[1] = "accepted" })

=============================================================================
